---- MODULE Spec2Model ----
(***************************************************************************)
(* json-ls: a model of the document store, the diagnostics scheduler, the  *)
(* schema cache, the position classifier and the schema navigator.         *)
(*                                                                         *)
(* Text is a sequence of characters, each character a string: the ASCII    *)
(* characters are one-character strings, "U+E9" stands for a two-byte BMP  *)
(* character and "U+1F600" for a four-byte character outside the BMP.      *)
(* An Option<T> is a sequence of length 0 (None) or 1 (Some).              *)
(***************************************************************************)
EXTENDS Integers, Sequences, FiniteSets, TLC

VARIABLES
    documents,            \* DocumentStore.inner: uri -> Option<DocumentState>
    lastUpdate,           \* what the last document-store call was given and returned
    pending_diagnostics,  \* Backend.pending_diagnostics: uri -> Option<task id>
    tasks,                \* the diagnostics tasks spawned so far, by id
    outbox,               \* the last notification sent to the client about each uri
    server,               \* "running", or "shutdown" once shutdown was handled
    inner,                \* SchemaCache.inner: url -> Option<entry> (the moka cache)
    errors,               \* SchemaCache.errors: url -> Option<time of the failure>
    calls,                \* the get_or_fetch calls made so far, by id
    last_failure,         \* url -> Option<time the loader last failed for it>
    now,                  \* the schema cache's clock (Instant::now), in seconds
    config,               \* the ServerConfig the cache was built from, and the one
                          \* that initialize parsed
    scanner,              \* position_to_context: the scanner's input, cursor and frames
    nav,                  \* SchemaNode::navigate: the schema, the path and the frames
    completion,           \* handle_completion: the schema of the document and the response
    listing               \* SchemaNode::property_names: the schema and the calls in progress

docVars == <<documents, lastUpdate>>
diagVars == <<pending_diagnostics, tasks, outbox, server>>
cacheVars == <<inner, errors, calls, last_failure, now, config>>
libVars == <<cacheVars, scanner, nav, completion, listing>>
vars == <<documents, lastUpdate, pending_diagnostics, tasks, outbox, server,
          inner, errors, calls, last_failure, now, config, scanner, nav, completion,
          listing>>

None == <<>>
Some(v) == <<v>>

(***************************************************************************)
(* The server configuration (config.rs) and the construction of the        *)
(* backend (backend.rs 25-35).                                             *)
(***************************************************************************)
DEFAULT_SCHEMA_TTL_SECS == 28800
\* schema/cache.rs, line 11
ERROR_RETRY_SECS == 60
DEFAULT_SCHEMA_CACHE_CAPACITY == 128

\* impl Default for ServerConfig
ServerConfigDefault ==
    [schema_ttl_secs |-> DEFAULT_SCHEMA_TTL_SECS,
     schema_cache_capacity |-> DEFAULT_SCHEMA_CACHE_CAPACITY]

\* ServerConfig::from_value: a value that does not deserialize gives the
\* default configuration; a field that is absent gets its default
from_value(value) ==
    IF ~value.valid THEN ServerConfigDefault
    ELSE [schema_ttl_secs |->
              IF value.schema_ttl_secs = None THEN DEFAULT_SCHEMA_TTL_SECS
              ELSE value.schema_ttl_secs[1],
          schema_cache_capacity |->
              IF value.schema_cache_capacity = None
              THEN DEFAULT_SCHEMA_CACHE_CAPACITY
              ELSE value.schema_cache_capacity[1]]

\* SchemaCache::new: the time to live and the capacity of the positive map
SchemaCacheNew(server_config) ==
    [schema_ttl_secs |-> server_config.schema_ttl_secs,
     schema_cache_capacity |-> server_config.schema_cache_capacity]

\* Backend::new: the cache is built from the default configuration
BackendNew ==
    [schema_cache |-> SchemaCacheNew(ServerConfigDefault), initialized |-> None]

\* the initializationOptions of the initialize request: none, a value that is
\* no ServerConfig, an empty object, and both fields given
InitializationOptions ==
    {None,
     Some([valid |-> FALSE, schema_ttl_secs |-> None,
           schema_cache_capacity |-> None]),
     Some([valid |-> TRUE, schema_ttl_secs |-> None,
           schema_cache_capacity |-> None]),
     Some([valid |-> TRUE, schema_ttl_secs |-> Some(ERROR_RETRY_SECS),
           schema_cache_capacity |-> Some(1)])}

Min(a, b) == IF a <= b THEN a ELSE b

(***************************************************************************)
(* Characters and strings                                                  *)
(***************************************************************************)
LF == "\n"

\* char::len_utf16
\* a count that would take every character for one code unit
OneUnit(ch) == 1

LenUtf16(ch) == IF ch = "U+1F600" THEN 2 ELSE 1

\* char::len_utf8
LenUtf8(ch) == IF ch = "U+1F600" THEN 4 ELSE IF ch = "U+E9" THEN 2 ELSE 1

\* the number of bytes of the first n characters of text
RECURSIVE ByteLen(_, _)
ByteLen(text, n) == IF n = 0 THEN 0 ELSE ByteLen(text, n - 1) + LenUtf8(text[n])

\* str::len
StrLen(text) == ByteLen(text, Len(text))

\* whether pat occurs in s at index i (1-based)
MatchAt(s, pat, i) ==
    /\ i + Len(pat) - 1 <= Len(s)
    /\ \A k \in 1..Len(pat) : s[i + k - 1] = pat[k]

\* str::find: the 1-based index of the first occurrence of pat in s, 0 if none
Find(s, pat) ==
    LET hits == {i \in 1..Len(s) : MatchAt(s, pat, i)}
    IN  IF hits = {} THEN 0 ELSE CHOOSE i \in hits : \A j \in hits : i <= j

\* s[from..], from a 1-based index
Tail_(s, from) == SubSeq(s, from, Len(s))

IsWhite(ch) == ch \in {" ", "\t", "\r", LF}

\* str::trim_start
RECURSIVE TrimStart(_)
TrimStart(s) == IF s # <<>> /\ IsWhite(Head(s)) THEN TrimStart(Tail(s)) ELSE s

(***************************************************************************)
(* src/document.rs                                                         *)
(***************************************************************************)
SCHEMA_SCAN_BYTES == 2048

SchemaKey == <<"\"", "$", "s", "c", "h", "e", "m", "a", "\"">>

\* &text[..text.len().min(2048)]: the longest prefix of whole characters within
\* the first 2048 bytes
ScanPrefix(text) ==
    IF StrLen(text) <= SCHEMA_SCAN_BYTES THEN text
    ELSE LET ns == {n \in 0..Len(text) : ByteLen(text, n) <= SCHEMA_SCAN_BYTES}
         IN  SubSeq(text, 1, CHOOSE n \in ns : \A m \in ns : m <= n)

\* extract_schema_url: None, or Some(url) with url non-empty
extract_schema_url(text) ==
    LET scan == ScanPrefix(text)
        key_pos == Find(scan, SchemaKey)
    IN  IF key_pos = 0 THEN None
        ELSE
        LET after_key == Tail_(scan, key_pos + 9)
            colon == Find(after_key, <<":">>)
        IN  IF colon = 0 THEN None
            ELSE
            LET after_colon == TrimStart(Tail_(after_key, colon + 1))
            IN  IF after_colon = <<>> \/ Head(after_colon) # "\"" THEN None
                ELSE
                LET inner_str == Tail(after_colon)
                    end == Find(inner_str, <<"\"">>)
                IN  IF end = 0 THEN None
                    ELSE IF end = 1 THEN None
                    ELSE Some(SubSeq(inner_str, 1, end - 1))

\* Rope::from_str and Rope::to_string: a rope is the characters of its text
from_str(text) == text
to_string(rope) == rope

\* DocumentState { rope, version, schema_url, text }; the rope is its characters
DocumentState(rope, version, schema_url, text) ==
    [rope |-> rope, version |-> version, schema_url |-> schema_url, text |-> text]

\* DocumentStore::open: the state inserted for the uri
open(version, text) ==
    DocumentState(from_str(text), version, extract_schema_url(text), text)

\* Rope::len_lines: one more than the number of line breaks
len_lines(rope) == Cardinality({i \in 1..Len(rope) : rope[i] = LF}) + 1

\* Rope::line_to_char: the number of characters before the start of the line
line_to_char(rope, line) ==
    IF line = 0 THEN 0
    ELSE CHOOSE i \in 1..Len(rope) :
            /\ rope[i] = LF
            /\ Cardinality({j \in 1..i : rope[j] = LF}) = line

\* Rope::line: the line's characters, its line break included
line_slice(rope, line) ==
    LET start == line_to_char(rope, line)
        ends == {i \in (start + 1)..Len(rope) : rope[i] = LF}
        end == IF ends = {} THEN Len(rope) ELSE CHOOSE i \in ends : \A j \in ends : i <= j
    IN  SubSeq(rope, start + 1, end)

\* the loop of lsp_pos_to_char_idx: the number of characters consumed from
\* chars while utf16_remaining covers them
RECURSIVE Utf16Walk(_, _)
Utf16Walk(chars, utf16_remaining) ==
    IF chars = <<>> \/ utf16_remaining = 0 THEN 0
    ELSE IF utf16_remaining < LenUtf16(Head(chars)) THEN 0
    ELSE 1 + Utf16Walk(Tail(chars), utf16_remaining - LenUtf16(Head(chars)))

\* lsp_pos_to_char_idx: Err when the line is not in the rope, else Ok(char index)
lsp_pos_to_char_idx(rope, pos) ==
    IF pos.line >= len_lines(rope) THEN [ok |-> FALSE, v |-> 0]
    ELSE [ok |-> TRUE,
          v |-> line_to_char(rope, pos.line)
                  + Utf16Walk(line_slice(rope, pos.line), pos.character)]

\* an insertion that would leave the characters of the range in place
InsertOnly(rope, start, end, text) ==
    SubSeq(rope, 1, start) \o text \o SubSeq(rope, start + 1, Len(rope))

\* rope.remove(start..end); rope.insert(start, text)
Splice(rope, start, end, text) ==
    SubSeq(rope, 1, start) \o text \o SubSeq(rope, end + 1, Len(rope))

\* a ranged change that would leave the text snapshot as it was
KeepText(state) == state

\* line 64: state.text = state.rope.to_string()
RebuildText(state) == [state EXCEPT !.text = to_string(state.rope)]

\* one iteration of the loop of DocumentStore::update on the state held by
\* get_mut: the state after the change and how the iteration ended
\* ("ok"; "err", a `?` returned; "panic", Rope::remove was given start > end)
ApplyChange(state, change) ==
    IF change.range = None
    THEN [status |-> "ok",
          state |-> [state EXCEPT !.rope = from_str(change.text), !.text = change.text]]
    ELSE
    LET range == change.range[1]
        start == lsp_pos_to_char_idx(state.rope, range.start)
        end == lsp_pos_to_char_idx(state.rope, range.end)
    IN  IF ~start.ok \/ ~end.ok THEN [status |-> "err", state |-> state]
        ELSE IF start.v > end.v THEN [status |-> "panic", state |-> state]
        ELSE LET rope == Splice(state.rope, start.v, end.v, change.text)
             IN  [status |-> "ok", state |-> RebuildText([state EXCEPT !.rope = rope])]

\* the loop of DocumentStore::update: the changes are applied in place, in order,
\* and the first that does not end "ok" leaves the state as the earlier ones made it
RECURSIVE ApplyChanges(_, _)
ApplyChanges(state, changes) ==
    IF changes = <<>> THEN [status |-> "ok", state |-> state]
    ELSE LET r == ApplyChange(state, Head(changes))
         IN  IF r.status # "ok" THEN r ELSE ApplyChanges(r.state, Tail(changes))

\* DocumentStore::update on the state of an open document
update(state, version, changes) ==
    LET r == ApplyChanges(state, changes)
    IN  IF r.status # "ok" THEN r
        ELSE [status |-> "ok",
              state |-> [r.state EXCEPT !.version = version,
                                        !.schema_url = extract_schema_url(r.state.text)]]

(***************************************************************************)
(* The document store on its own: open, update and close, called with      *)
(* sample texts and change lists.                                          *)
(***************************************************************************)
MaxTextLen == 3
MaxChanges == 2
MaxVersion == 2

DocUris == {"u1"}

Pos(line, character) == [line |-> line, character |-> character]
Full(text) == [range |-> None, text |-> text]
Ranged(start, end, text) == [range |-> Some([start |-> start, end |-> end]), text |-> text]

\* a document without and one with a "$schema" field
TextPlain == <<"{", "}">>
TextSchema ==
    <<"{", "\"", "$", "s", "c", "h", "e", "m", "a", "\"", ":", "\"", "s", "\"", "}">>

SampleTexts == {<<>>, <<"a">>, <<"a", LF, "a">>, <<"U+1F600", "a">>, TextSchema}

\* the texts of the full replacements
FullTexts == {<<"a", LF, "a">>, TextSchema}

SampleChanges ==
    {Full(t) : t \in FullTexts} \cup
    { Ranged(Pos(0, 0), Pos(0, 0), <<"a">>),   \* insert at the start
      Ranged(Pos(0, 0), Pos(0, 1), <<>>),      \* delete the first character
      Ranged(Pos(0, 1), Pos(1, 0), <<LF>>),    \* replace across a line break
      Ranged(Pos(1, 0), Pos(1, 1), <<"a">>),   \* replace on the second line
      Ranged(Pos(2, 0), Pos(2, 0), <<"a">>),   \* a line that may not exist
      Ranged(Pos(0, 0), Pos(0, 3), <<>>),      \* a column past the end of the line
      Ranged(Pos(0, 1), Pos(0, 0), <<>>) }     \* an end before the start

\* the change lists of length 1..n
RECURSIVE ChangeLists(_)
ChangeLists(n) ==
    IF n = 0 THEN {}
    ELSE LET shorter == ChangeLists(n - 1)
         IN  {<<c>> : c \in SampleChanges} \cup shorter
               \cup {Append(l, c) : l \in shorter, c \in SampleChanges}

\* whether the position's line is not a line of the rope
PastEnd(rope, pos) == pos.line >= len_lines(rope)

\* whether some change of the list, met with the document as the changes before
\* it left it, has a range endpoint past the end of the document
RECURSIVE AnyPastEnd(_, _)
AnyPastEnd(state, changes) ==
    IF changes = <<>> THEN FALSE
    ELSE LET c == Head(changes)
             r == ApplyChange(state, c)
         IN  \/ /\ c.range # None
                /\ \/ PastEnd(state.rope, c.range[1].start)
                   \/ PastEnd(state.rope, c.range[1].end)
             \/ /\ r.status = "ok"
                /\ AnyPastEnd(r.state, Tail(changes))

\* the number of changes of the list that the loop of update applies before it
\* ends
RECURSIVE Applied(_, _)
Applied(state, changes) ==
    IF changes = <<>> THEN 0
    ELSE LET r == ApplyChange(state, Head(changes))
         IN  IF r.status # "ok" THEN 0 ELSE 1 + Applied(r.state, Tail(changes))

\* The meaning of a ranged change by the LSP, stated on the text alone: a
\* position is in bounds when its line is a line of the text and its column is
\* the UTF-16 length of a prefix of that line (the line break not counted); it
\* then stands for one offset into the text, and the change replaces the
\* characters between the offsets of its start and its end.
RECURSIVE Utf16Len(_)
Utf16Len(chars) ==
    IF chars = <<>> THEN 0 ELSE LenUtf16(Head(chars)) + Utf16Len(Tail(chars))

\* the offsets n such that text[1..n] ends at the position
OffsetsOf(text, pos) ==
    {n \in 0..Len(text) :
        LET breaks == {i \in 1..n : text[i] = LF}
            line_start == IF breaks = {} THEN 0
                          ELSE CHOOSE i \in breaks : \A j \in breaks : j <= i
        IN  /\ Cardinality(breaks) = pos.line
            /\ Utf16Len(SubSeq(text, line_start + 1, n)) = pos.character}

InBounds(text, change) ==
    /\ change.range # None
    /\ OffsetsOf(text, change.range[1].start) # {}
    /\ OffsetsOf(text, change.range[1].end) # {}
    /\ \A s \in OffsetsOf(text, change.range[1].start) :
          \A e \in OffsetsOf(text, change.range[1].end) : s <= e

\* the text with the in-bounds change spliced in
SpliceEdit(text, change) ==
    LET s == CHOOSE n \in OffsetsOf(text, change.range[1].start) : TRUE
        e == CHOOSE n \in OffsetsOf(text, change.range[1].end) : TRUE
    IN  SubSeq(text, 1, s) \o change.text \o SubSeq(text, e + 1, Len(text))

\* whether each change of the list is in bounds for the text as the changes
\* before it leave it
RECURSIVE AllInBounds(_, _)
AllInBounds(text, changes) ==
    \/ changes = <<>>
    \/ /\ InBounds(text, Head(changes))
       /\ AllInBounds(SpliceEdit(text, Head(changes)), Tail(changes))

\* the text with the in-bounds changes spliced in, in order
RECURSIVE SpliceEdits(_, _)
SpliceEdits(text, changes) ==
    IF changes = <<>> THEN text
    ELSE SpliceEdits(SpliceEdit(text, Head(changes)), Tail(changes))

\* the version a client sends with a change: the one after the document's
NextVersions(doc) ==
    IF doc = None THEN {1} ELSE {v \in {doc[1].version + 1} : v <= MaxVersion}

\* Kept of the last call: `applied`, the number of changes the update applied;
\* `inBounds`, that its changes were ranged and in bounds; `asFull`, that the
\* text it left is the text that the full replacement by the spliced text
\* would have left.
NoCall ==
    [op |-> "none", uri |-> "", status |-> "ok", pastEnd |-> FALSE,
     applied |-> 0, inBounds |-> FALSE, asFull |-> FALSE]

DocInit ==
    /\ documents = [u \in DocUris |-> None]
    /\ lastUpdate = NoCall
    /\ pending_diagnostics = <<>>
    /\ tasks = <<>>
    /\ outbox = <<>>
    /\ server = "running"
    /\ inner = <<>>
    /\ errors = <<>>
    /\ calls = <<>>
    /\ last_failure = <<>>
    /\ now = 0
    /\ config = BackendNew
    /\ scanner = <<>>
    /\ nav = <<>>
    /\ completion = <<>>
    /\ listing = <<>>

\* DocumentStore::open
DocOpen(uri, version, text) ==
    /\ documents' = [documents EXCEPT ![uri] = Some(open(version, text))]
    /\ lastUpdate' = [NoCall EXCEPT !.op = "open", !.uri = uri]

\* DocumentStore::update: not found, or the changes applied to the stored state
DocUpdate(uri, version, changes) ==
    IF documents[uri] = None
    THEN /\ lastUpdate' = [NoCall EXCEPT !.op = "update", !.uri = uri, !.status = "notfound"]
         /\ UNCHANGED documents
    ELSE LET state == documents[uri][1]
             r == update(state, version, changes)
             inBounds == AllInBounds(state.text, changes)
             spliced == IF inBounds THEN SpliceEdits(state.text, changes) ELSE <<>>
         IN  /\ Len(r.state.text) <= MaxTextLen \/ r.state.text \in SampleTexts
             /\ documents' = [documents EXCEPT ![uri] = Some(r.state)]
             /\ lastUpdate' = [op |-> "update", uri |-> uri, status |-> r.status,
                               pastEnd |-> AnyPastEnd(state, changes),
                               applied |-> Applied(state, changes),
                               inBounds |-> inBounds,
                               asFull |->
                                   /\ inBounds
                                   /\ r.state.text
                                        = update(state, version, <<Full(spliced)>>).state.text]

\* a close that would leave the document in the store
CloseKeeps(uri) ==
    /\ UNCHANGED documents
    /\ lastUpdate' = [NoCall EXCEPT !.op = "close", !.uri = uri]

\* DocumentStore::close
DocClose(uri) ==
    /\ documents' = [documents EXCEPT ![uri] = None]
    /\ lastUpdate' = [NoCall EXCEPT !.op = "close", !.uri = uri]

DocIdle == UNCHANGED <<diagVars, libVars>>

\* DocumentStore::get_text and DocumentStore::get_schema_url
get_text(uri) ==
    IF documents[uri] = None THEN None ELSE Some(documents[uri][1].text)

get_schema_url(uri) ==
    IF documents[uri] = None THEN None ELSE documents[uri][1].schema_url

DocNext ==
    \/ \E u \in DocUris, v \in 1..MaxVersion, t \in SampleTexts : DocOpen(u, v, t) /\ DocIdle
    \/ \E u \in DocUris, cs \in ChangeLists(MaxChanges) :
          \E v \in NextVersions(documents[u]) : DocUpdate(u, v, cs) /\ DocIdle
    \/ \E u \in DocUris : DocClose(u) /\ DocIdle

SpecDoc == DocInit /\ [][DocNext]_vars

\* C7: an update with a range endpoint past the end of the document fails and
\* leaves the document (text, rope, version, schema URL) as it was before the call.
C7_FailedUpdateLeavesDocument ==
    [][(lastUpdate'.op = "update" /\ lastUpdate'.pastEnd)
         => (lastUpdate'.status = "err" /\ documents' = documents)]_vars

\* C16: the rope of every open document has the content of its text snapshot,
\* after any sequence of open, update (successful or failed) and close calls.
C16_RopeEqualsText ==
    \A u \in DocUris :
        documents[u] # None => to_string(documents[u][1].rope) = documents[u][1].text

\* an update failed after a change of it had been applied
C16_Witness ==
    \E u \in DocUris :
        /\ documents[u] # None
        /\ lastUpdate.op = "update" /\ lastUpdate.status = "err"
        /\ lastUpdate.applied > 0

\* C17: the schema URL stored with every open document is the result of
\* extract_schema_url on the document's current text, also after an update
\* that returned an error.
C17_SchemaUrlOfCurrentText ==
    \A u \in DocUris :
        documents[u] # None
            => documents[u][1].schema_url = extract_schema_url(documents[u][1].text)

\* C18: an update whose changes are all ranged and in bounds succeeds and
\* leaves the text that one full replacement by the text with those changes
\* spliced in, in order, would have left.
C18_RangedEqualsFullReplacement ==
    \A u \in DocUris :
        (lastUpdate.op = "update" /\ lastUpdate.uri = u /\ lastUpdate.inBounds)
            => /\ lastUpdate.status = "ok"
               /\ documents[u] # None
               /\ lastUpdate.asFull

\* an update of two in-bounds ranged changes that changed the text's length
C18_Witness ==
    \E u \in DocUris :
        /\ lastUpdate.op = "update" /\ lastUpdate.inBounds
        /\ lastUpdate.applied >= 2
        /\ documents[u] # None /\ Len(documents[u][1].text) = MaxTextLen

\* C19: update holds the entry of its uri (get_mut) from its first statement
\* to its return, so a reader (get_text, get_schema_url) and another update
\* see the document as it is between two calls. What an update call leaves is
\* then either the document as it was before the call, or the document with all
\* the changes of the call applied and the schema URL of the new text; never
\* the document with only some of the changes applied.
C19_UpdateIsAtomic ==
    [][\A u \in DocUris :
          (lastUpdate'.op = "update" /\ lastUpdate'.uri = u /\ documents[u] # None)
             => \/ documents'[u] = documents[u]
                \/ /\ lastUpdate'.status = "ok"
                   /\ documents'[u][1].schema_url
                         = extract_schema_url(documents'[u][1].text)]_vars

\* C21: a document is in the store from its open to its close. After open,
\* get_text gives its text; after close, get_text and get_schema_url give None;
\* an update of a uri that is not open returns the not-found error and leaves
\* the store as it was, and an update of an open uri does not return it.
C21_ExistsBetweenOpenAndClose ==
    [][\A u \in DocUris :
          LET call == lastUpdate'
          IN  call.uri = u =>
                /\ call.op = "open" => get_text(u)' # None
                /\ call.op = "close" =>
                      (get_text(u)' = None /\ get_schema_url(u)' = None)
                /\ (call.op = "update" /\ get_text(u) = None) =>
                      (call.status = "notfound" /\ documents' = documents)
                /\ (call.op = "update" /\ get_text(u) # None) =>
                      call.status # "notfound"]_vars

\* an update of a uri that is not open was refused
C21_Witness ==
    \E u \in DocUris :
        /\ lastUpdate.op = "update" /\ lastUpdate.uri = u
        /\ lastUpdate.status = "notfound" /\ get_text(u) = None

(***************************************************************************)
(* src/backend.rs: the handlers and the diagnostics tasks.                 *)
(*                                                                         *)
(* The runtime is tokio's multi-thread runtime (#[tokio::main]): a spawned *)
(* task runs in parallel with the handlers. JoinHandle::abort marks the    *)
(* task cancelled; a task that is suspended at an await is dropped without *)
(* being polled again, a task that is being polled runs on until its next  *)
(* await that suspends. A handler has no await before its last call, so    *)
(* the handlers are atomic with respect to one another.                    *)
(***************************************************************************)
DEBOUNCE_MS == 300

TickMs == 150
MaxTasks == 3

Uris == {"u1"}

\* the version numbers the client sends
Versions == {1}

OpenTexts == {TextPlain, TextSchema}

\* the change lists a did_change brings: a full replacement, a replacement of
\* the first character, and a range on a line the document does not have
ChangeEvents ==
    {<<Full(t)>> : t \in OpenTexts} \cup
    { <<Ranged(Pos(0, 0), Pos(0, 1), <<"{">>)>>,
      <<Ranged(Pos(9, 0), Pos(9, 0), <<"x">>)>> }

TaskIds == DOMAIN tasks

TasksOf(uri) == {t \in TaskIds : tasks[t].uri = uri}

\* whether the task has run to its end or was dropped
Finished(task) == task.pc \in {"done", "aborted"}

\* the last task scheduled for the uri so far (0: none): every edit of a
\* document schedules a task, so it names the last edit too
LastOf(uri) ==
    IF TasksOf(uri) = {} THEN 0
    ELSE CHOOSE t \in TasksOf(uri) : \A s \in TasksOf(uri) : s <= t

\* the task spawned by schedule_diagnostics. `age` is the time since the call,
\* counted up to DEBOUNCE_MS; `near` are the earlier tasks of the uri whose
\* schedule_diagnostics was less than DEBOUNCE_MS before this one; `basis` will
\* be the last edit that the text the task reads has seen, and `stale` whether
\* what it published was computed from a text older than the one left by an
\* edit made less than DEBOUNCE_MS after the task's own
NewTask(uri) ==
    [uri |-> uri, age |-> 0,
     near |-> {s \in TasksOf(uri) : tasks[s].age < DEBOUNCE_MS},
     pc |-> "sleep", cancelled |-> FALSE, published |-> FALSE, stale |-> FALSE,
     text |-> None, schema_url |-> None, fetched |-> "", basis |-> 0]

\* what is left of a task that was dropped before it published
Dropped(task) ==
    IF task.published
    THEN [task EXCEPT !.pc = "aborted", !.age = DEBOUNCE_MS, !.basis = 0,
                      !.text = None, !.schema_url = None, !.fetched = ""]
    ELSE [task EXCEPT !.pc = "aborted", !.age = DEBOUNCE_MS, !.basis = 0,
                      !.text = None, !.schema_url = None, !.fetched = ""]

\* JoinHandle::abort on the handle taken from pending_diagnostics, if any; it
\* does nothing to a task that has finished
Abort(ts, handle) ==
    IF handle = None \/ Finished(ts[handle[1]]) THEN ts
    ELSE [ts EXCEPT ![handle[1]].cancelled = TRUE]

\* schedule_diagnostics: the tasks after remove, abort and spawn
ScheduledTasks(uri) == Append(Abort(tasks, pending_diagnostics[uri]), NewTask(uri))

\* schedule_diagnostics: pending_diagnostics after remove and insert
ScheduledPending(uri) == [pending_diagnostics EXCEPT ![uri] = Some(Len(tasks) + 1)]

schedule_diagnostics(uri) ==
    /\ tasks' = ScheduledTasks(uri)
    /\ pending_diagnostics' = ScheduledPending(uri)

\* a textDocument/publishDiagnostics notification
PublishDiagnostics(uri, diagnostics) ==
    [method |-> "textDocument/publishDiagnostics", uri |-> uri, diagnostics |-> diagnostics]

\* the window/logMessage of did_change
LogMessage(uri) ==
    [method |-> "window/logMessage", uri |-> uri, diagnostics |-> <<>>, type |-> "Error"]

\* the client's channel: the last notification sent about each uri
Send(msg) == outbox' = [outbox EXCEPT ![msg.uri] = Some(msg)]

Handling == server = "running"

MaySpawn == Len(tasks) < MaxTasks

\* Backend::did_open
did_open(uri, version, text) ==
    /\ Handling
    /\ MaySpawn
    /\ documents' = [documents EXCEPT ![uri] = Some(open(version, text))]
    /\ schedule_diagnostics(uri)
    /\ UNCHANGED <<lastUpdate, outbox, libVars, server>>

\* did_change if it went on to schedule_diagnostics after a failed update
did_change_rescheduling(uri, version, changes) ==
    /\ Handling
    /\ MaySpawn
    /\ IF documents[uri] = None
       THEN Send(LogMessage(uri)) /\ UNCHANGED documents
       ELSE LET r == update(documents[uri][1], version, changes)
            IN  /\ documents' = [documents EXCEPT ![uri] = Some(r.state)]
                /\ IF r.status = "ok" THEN UNCHANGED outbox ELSE Send(LogMessage(uri))
    /\ schedule_diagnostics(uri)
    /\ UNCHANGED <<lastUpdate, libVars, server>>

\* Backend::did_change: update, then a log message or schedule_diagnostics
did_change(uri, version, changes) ==
    /\ Handling
    /\ IF documents[uri] = None
       THEN /\ Send(LogMessage(uri))
            /\ UNCHANGED <<documents, tasks, pending_diagnostics>>
       ELSE LET r == update(documents[uri][1], version, changes)
            IN  /\ documents' = [documents EXCEPT ![uri] = Some(r.state)]
                /\ IF r.status = "ok"
                   THEN MaySpawn /\ schedule_diagnostics(uri) /\ UNCHANGED outbox
                   ELSE /\ Send(LogMessage(uri))
                        /\ UNCHANGED <<tasks, pending_diagnostics>>
    /\ UNCHANGED <<lastUpdate, libVars, server>>

\* Backend::did_close
did_close(uri) ==
    /\ Handling
    /\ tasks' = Abort(tasks, pending_diagnostics[uri])
    /\ pending_diagnostics' = [pending_diagnostics EXCEPT ![uri] = None]
    /\ documents' = [documents EXCEPT ![uri] = None]
    /\ Send(PublishDiagnostics(uri, <<>>))
    /\ UNCHANGED <<lastUpdate, libVars, server>>

\* the loop of Backend::shutdown: every registered handle is aborted, and stays
\* registered
RECURSIVE AbortAll(_, _)
AbortAll(ts, uris) ==
    IF uris = {} THEN ts
    ELSE LET u == CHOOSE x \in uris : TRUE
         IN  AbortAll(Abort(ts, pending_diagnostics[u]), uris \ {u})

\* Backend::shutdown
shutdown ==
    /\ server = "running"
    /\ tasks' = AbortAll(tasks, Uris)
    /\ server' = "shutdown"
    /\ UNCHANGED <<documents, lastUpdate, pending_diagnostics, outbox, libVars>>

\* TickMs pass
Tick ==
    /\ \E t \in TaskIds : tasks[t].age < DEBOUNCE_MS
    /\ tasks' = [t \in TaskIds |->
                   [tasks[t] EXCEPT !.age = Min(tasks[t].age + TickMs, DEBOUNCE_MS)]]
    /\ UNCHANGED <<documents, lastUpdate, pending_diagnostics, outbox, libVars, server>>

TaskStep(t, task) ==
    /\ tasks' = [tasks EXCEPT ![t] = task]
    /\ UNCHANGED <<documents, lastUpdate, libVars, server>>

\* tokio::time::sleep(DEBOUNCE_MS) is over and the task is polled; a task that
\* was aborted in its sleep is not polled again
TaskWake(t) ==
    /\ tasks[t].pc = "sleep"
    /\ ~tasks[t].cancelled
    /\ tasks[t].age >= DEBOUNCE_MS
    /\ TaskStep(t, [tasks[t] EXCEPT !.pc = "get_text"])
    /\ UNCHANGED <<pending_diagnostics, outbox>>

\* validate_document: documents.get_text(uri)
TaskGetText(t) ==
    LET task == tasks[t]
        doc == documents[task.uri]
    IN  /\ task.pc = "get_text"
        /\ IF doc = None
           THEN TaskStep(t, [task EXCEPT !.pc = "publish"])
           ELSE TaskStep(t, [task EXCEPT !.pc = "get_schema_url", !.text = Some(doc[1].text),
                                         !.basis = LastOf(task.uri)])
        /\ UNCHANGED <<pending_diagnostics, outbox>>

\* validate_document: documents.get_schema_url(uri)
TaskGetSchemaUrl(t) ==
    LET task == tasks[t]
        doc == documents[task.uri]
        url == IF doc = None THEN None ELSE doc[1].schema_url
    IN  /\ task.pc = "get_schema_url"
        /\ IF url = None
           THEN TaskStep(t, [task EXCEPT !.pc = "publish"])
           ELSE TaskStep(t, [task EXCEPT !.pc = "fetch", !.schema_url = url])
        /\ UNCHANGED <<pending_diagnostics, outbox>>

\* validate_document: schema_cache.get_or_fetch(&schema_url).await, which gives
\* the schema or an error
TaskFetch(t, result) ==
    /\ tasks[t].pc = "fetch"
    /\ TaskStep(t, [tasks[t] EXCEPT !.pc = "publish", !.fetched = result])
    /\ UNCHANGED <<pending_diagnostics, outbox>>

\* serde_json::from_str::<Value>, as a recognizer of the JSON texts made of
\* objects, arrays, strings and numbers of digits: the index of the character
\* after the value, or the index of the character that the parser rejects
\* (one past the last character where the text ends too early)
Parsed(next) == [ok |-> TRUE, at |-> next]
Rejected(at) == [ok |-> FALSE, at |-> at]

RECURSIVE SkipWhite(_, _)
SkipWhite(text, k) ==
    IF k <= Len(text) /\ IsWhite(text[k]) THEN SkipWhite(text, k + 1) ELSE k

Digits == {"0", "1", "2", "3", "4", "5", "6", "7", "8", "9"}

RECURSIVE ParseNumber(_, _)
ParseNumber(text, k) ==
    IF k <= Len(text) /\ text[k] \in Digits THEN ParseNumber(text, k + 1) ELSE Parsed(k)

\* the characters of a string after its opening quote
RECURSIVE ParseString(_, _)
ParseString(text, k) ==
    IF k > Len(text) THEN Rejected(k)
    ELSE IF text[k] = "\"" THEN Parsed(k + 1)
    ELSE IF text[k] = "\\" THEN ParseString(text, k + 2)
    ELSE IF text[k] \in {LF, "\t", "\r"} THEN Rejected(k)
    ELSE ParseString(text, k + 1)

RECURSIVE ParseValue(_, _)
RECURSIVE ParseMembers(_, _)
RECURSIVE ParseElements(_, _)

\* a value, from the k-th character on
ParseValue(text, k) ==
    LET at == SkipWhite(text, k)
    IN  IF at > Len(text) THEN Rejected(at)
        ELSE IF text[at] = "{"
        THEN LET first == SkipWhite(text, at + 1)
             IN  IF first <= Len(text) /\ text[first] = "}" THEN Parsed(first + 1)
                 ELSE ParseMembers(text, first)
        ELSE IF text[at] = "["
        THEN LET first == SkipWhite(text, at + 1)
             IN  IF first <= Len(text) /\ text[first] = "]" THEN Parsed(first + 1)
                 ELSE ParseElements(text, first)
        ELSE IF text[at] = "\"" THEN ParseString(text, at + 1)
        ELSE IF text[at] \in Digits THEN ParseNumber(text, at)
        ELSE Rejected(at)

\* the members of an object from a key on, up to the closing brace
ParseMembers(text, k) ==
    IF k > Len(text) \/ text[k] # "\"" THEN Rejected(k)
    ELSE LET key == ParseString(text, k + 1)
             colon == SkipWhite(text, key.at)
             value == ParseValue(text, colon + 1)
             after == SkipWhite(text, value.at)
         IN  IF ~key.ok THEN key
             ELSE IF colon > Len(text) \/ text[colon] # ":" THEN Rejected(colon)
             ELSE IF ~value.ok THEN value
             ELSE IF after > Len(text) THEN Rejected(after)
             ELSE IF text[after] = "}" THEN Parsed(after + 1)
             ELSE IF text[after] = "," THEN ParseMembers(text, SkipWhite(text, after + 1))
             ELSE Rejected(after)

\* the elements of an array from a value on, up to the closing bracket
ParseElements(text, k) ==
    LET value == ParseValue(text, k)
        after == SkipWhite(text, value.at)
    IN  IF ~value.ok THEN value
        ELSE IF after > Len(text) THEN Rejected(after)
        ELSE IF text[after] = "]" THEN Parsed(after + 1)
        ELSE IF text[after] = ","
        THEN LET next == SkipWhite(text, after + 1)
             IN  IF next <= Len(text) /\ text[next] = "]" THEN Rejected(next)
                 ELSE ParseElements(text, next)
        ELSE Rejected(after)

\* serde_json's position of an error: the line (from 1) and the column of the
\* rejected byte, the column being the number of bytes of the line up to and
\* including it; at the end of the text, the position of the last byte
ErrorPosition(text, at) ==
    LET upto == Min(at, Len(text))
        breaks == {i \in 1..upto : text[i] = LF}
        line_start == IF breaks = {} THEN 0
                      ELSE CHOOSE i \in breaks : \A j \in breaks : j <= i
    IN  [line |-> 1 + Cardinality(breaks),
         column |-> ByteLen(text, upto) - ByteLen(text, line_start)]

\* serde_json::from_str(&text): Ok, or the error with its position
json_from_str(text) ==
    LET value == ParseValue(text, 1)
        end == SkipWhite(text, value.at)
    IN  IF ~value.ok THEN [ok |-> FALSE, e |-> ErrorPosition(text, value.at)]
        ELSE IF end <= Len(text) THEN [ok |-> FALSE, e |-> ErrorPosition(text, end)]
        ELSE [ok |-> TRUE, e |-> [line |-> 0, column |-> 0]]

\* usize::saturating_sub(1)
saturating_sub_1(n) == IF n = 0 THEN 0 ELSE n - 1

parse_error_position(e) ==
    [line |-> saturating_sub_1(e.line), col |-> saturating_sub_1(e.column)]

\* the Diagnostic of a syntax error (its message is left out)
SyntaxDiagnostic(e) ==
    LET at == parse_error_position(e)
    IN  [range |-> [start |-> Pos(at.line, at.col), end |-> Pos(at.line, at.col + 1)],
         severity |-> "Error", code |-> "json-syntax", source |-> "json-ls"]

\* validate_document if it went on after a failed get_or_fetch
DiagnosticsUnfetched(task) ==
    IF task.text = None \/ task.schema_url = None THEN <<>>
    ELSE <<[validated |-> task.text[1], against |-> task.schema_url[1]]>>

\* validate_document without the branch of the syntax error
DiagnosticsOfValid(task) ==
    IF task.text = None \/ task.schema_url = None \/ task.fetched # "ok" THEN <<>>
    ELSE <<[validated |-> task.text[1], against |-> task.schema_url[1]]>>

\* validate_document: the list returned; for a text that parses, the validator
\* is a function of the text and the schema
Diagnostics(task) ==
    IF task.text = None \/ task.schema_url = None \/ task.fetched # "ok" THEN <<>>
    ELSE IF ~json_from_str(task.text[1]).ok
    THEN <<SyntaxDiagnostic(json_from_str(task.text[1]).e)>>
    ELSE <<[validated |-> task.text[1], against |-> task.schema_url[1]]>>

\* client.publish_diagnostics(task_uri, diagnostics, None)
TaskPublish(t) ==
    LET task == tasks[t]
    IN  /\ task.pc = "publish"
        /\ Send(PublishDiagnostics(task.uri, Diagnostics(task)))
        /\ TaskStep(t, [task EXCEPT !.pc = "unregister", !.published = TRUE,
                                      !.stale = /\ task.text # None
                                                /\ \E s \in TasksOf(task.uri) :
                                                      t \in tasks[s].near /\ task.basis < s,
                                      !.text = None, !.schema_url = None, !.fetched = "",
                                      !.basis = 0])
        /\ UNCHANGED pending_diagnostics

\* pending.remove(&task_uri)
TaskUnregister(t) ==
    /\ tasks[t].pc = "unregister"
    /\ pending_diagnostics' = [pending_diagnostics EXCEPT ![tasks[t].uri] = None]
    /\ TaskStep(t, [tasks[t] EXCEPT !.pc = "done", !.cancelled = FALSE])
    /\ UNCHANGED outbox

\* an aborted task whose await suspends is dropped there
TaskDrop(t) ==
    /\ tasks[t].cancelled
    /\ tasks[t].pc \in {"sleep", "fetch", "publish", "unregister"}
    /\ TaskStep(t, Dropped(tasks[t]))
    /\ UNCHANGED <<pending_diagnostics, outbox>>

BackendInit ==
    /\ documents = [u \in Uris |-> None]
    /\ lastUpdate = NoCall
    /\ pending_diagnostics = [u \in Uris |-> None]
    /\ tasks = <<>>
    /\ outbox = [u \in Uris |-> None]
    /\ server = "running"
    /\ inner = <<>>
    /\ errors = <<>>
    /\ calls = <<>>
    /\ last_failure = <<>>
    /\ now = 0
    /\ config = BackendNew
    /\ scanner = <<>>
    /\ nav = <<>>
    /\ completion = <<>>
    /\ listing = <<>>

BackendNext ==
    \/ \E u \in Uris, v \in Versions, t \in OpenTexts : did_open(u, v, t)
    \/ \E u \in Uris, v \in Versions, cs \in ChangeEvents : did_change(u, v, cs)
    \/ \E u \in Uris : did_close(u)
    \/ shutdown
    \/ Tick
    \/ \E t \in TaskIds : TaskWake(t)
    \/ \E t \in TaskIds : TaskGetText(t)
    \/ \E t \in TaskIds : TaskGetSchemaUrl(t)
    \/ \E t \in TaskIds, r \in {"ok", "err"} : TaskFetch(t, r)
    \/ \E t \in TaskIds : TaskPublish(t)
    \/ \E t \in TaskIds : TaskUnregister(t)
    \/ \E t \in TaskIds : TaskDrop(t)

SpecBackend == BackendInit /\ [][BackendNext]_vars

\* a task in flight: spawned, not finished and not cancelled
InFlight(t) == ~Finished(tasks[t]) /\ ~tasks[t].cancelled

\* C1: of the schedule_diagnostics calls for one uri that fall within DEBOUNCE_MS
\* of one another, at most one task publishes, and what is published is computed
\* from the text left by the last of those edits.
C1_BurstPublishesOnce ==
    \A j \in TaskIds : \A i \in tasks[j].near :
        /\ ~(tasks[i].published /\ tasks[j].published)
        /\ ~tasks[i].stale

\* C2: a task that has been aborted never publishes afterwards, and no task
\* publishes diagnostics of a text older than the last edit scheduled.
C2_CancelledNeverPublishes ==
    [][\A t \in DOMAIN tasks :
          (~tasks[t].published /\ tasks'[t].published)
             => /\ ~tasks[t].cancelled
                /\ tasks[t].basis \in {0, LastOf(tasks[t].uri)}]_vars

\* C9: each uri has at most one diagnostics task in flight.
C9_OneTaskInFlight ==
    \A u \in Uris : Cardinality({t \in TasksOf(u) : InFlight(t)}) <= 1

\* C10: once every task spawned for a uri has completed or been aborted,
\* pending_diagnostics holds no entry for the uri.
C10_NoRegistrationLeaks ==
    \A u \in Uris :
        (\A t \in TasksOf(u) : Finished(tasks[t]) \/ tasks[t].cancelled)
            => pending_diagnostics[u] = None

\* C11: once did_close has been handled for a uri, no diagnostics task publishes
\* for it while the document stays closed, so that the empty list sent by
\* did_close is the last publish for the closed document.
C11_NoPublishAfterClose ==
    [][\A t \in DOMAIN tasks :
          (~tasks[t].published /\ tasks'[t].published)
             => documents[tasks[t].uri] # None]_vars

\* C12: after the last did_open or successful did_change of a uri, diagnostics
\* are published for it, and the last publish is computed from the final text:
\* once the task of the last edit has published, no task publishes for the open
\* document from a text that has not seen that edit.
C12_LastPublishFromFinalText ==
    [][\A t \in DOMAIN tasks :
          LET uri == tasks[t].uri
          IN  (/\ ~tasks[t].published /\ tasks'[t].published
               /\ server = "running" /\ documents[uri] # None
               /\ tasks[LastOf(uri)].published)
                 => tasks[t].basis = LastOf(uri)]_vars

\* C20: the text and the schema URL that a diagnostics task works with belong
\* to one state of the document: the schema URL is the one stored with the text
\* it read, which for the documents of these handlers is extract_schema_url of
\* that text.
C20_ConsistentSnapshot ==
    \A t \in TaskIds :
        (tasks[t].text # None /\ tasks[t].schema_url # None)
            => tasks[t].schema_url = extract_schema_url(tasks[t].text[1])

(***************************************************************************)
(* The schema cache (schema/cache.rs). A get_or_fetch call runs on a task  *)
(* of the multi-thread runtime, so calls interleave between the statements *)
(* that touch the two maps: the cooldown check on `errors` (lines 37-45),  *)
(* the entry into inner.try_get_with (line 53) and the end of the load     *)
(* (lines 54-64). try_get_with coalesces the calls for a key that arrive   *)
(* while an init future for it is running: they wait and receive that      *)
(* future's value or error; a value is stored, an error is not.            *)
(***************************************************************************)

MaxCalls == 3
Urls == {"s"}
SchemaValues == {"v1", "v2"}
\* the instants at which something happens: around the end of a cooldown that
\* starts at 0 or just before its end, and at the end of the time to live
Instants == {0, ERROR_RETRY_SECS - 1, ERROR_RETRY_SECS, 2 * ERROR_RETRY_SECS - 1,
             DEFAULT_SCHEMA_TTL_SECS}

CallIds == DOMAIN calls
CallsFor(url) == {c \in CallIds : calls[c].url = url}

\* moka's lookup: an entry older than the time to live is not returned
Cached(url) ==
    IF /\ inner[url] # None
       /\ now - inner[url][1].at < config.schema_cache.schema_ttl_secs
    THEN Some(inner[url][1].value) ELSE None

\* the init future of try_get_with that is running for the url, if any
Loading(url) == {c \in CallsFor(url) : calls[c].pc = "load"}

\* DashMap::clone: a new map with a copy of the entries
Clone(map) == map

\* what the failure handler would do on the map that get_or_fetch checks
RecordFailureShared(self_errors, url, at) ==
    [self_errors |-> [self_errors EXCEPT ![url] = Some(at)],
     errors |-> [self_errors EXCEPT ![url] = Some(at)]]

\* lines 59-63, the load failed: the closure inserts the time of the failure
\* into `errors`, the map that line 48 made with self.errors.clone(), and which
\* the closure owns. `self_errors` is self.errors afterwards.
RecordFailure(self_errors, url, at) ==
    [self_errors |-> self_errors,
     errors |-> [Clone(self_errors) EXCEPT ![url] = Some(at)]]

\* a get_or_fetch call begins. Kept with the call: `fresh`, that the url had
\* neither an entry nor a failure record then; `peers`, the calls for the url
\* that had begun and not returned; `after_failure`, that the loader failed for
\* the url less than ERROR_RETRY_SECS before; `loaded`, that this call ran the
\* loader; `result`, what the call returned.
get_or_fetch(url) ==
    /\ Len(calls) < MaxCalls
    /\ calls' = Append(calls,
          [url |-> url, pc |-> "check",
           fresh |-> Cached(url) = None /\ errors[url] = None,
           peers |-> {c \in CallsFor(url) : calls[c].pc # "done"},
           after_failure |-> /\ last_failure[url] # None
                             /\ now - last_failure[url][1] < ERROR_RETRY_SECS,
           loaded |-> FALSE, result |-> "", quiet |-> FALSE])
    /\ UNCHANGED <<inner, errors, last_failure, now, config>>

\* lines 37-45: on cooldown the call returns an error; an expired record is
\* removed
CooldownCheck(c) ==
    /\ calls[c].pc = "check"
    /\ LET url == calls[c].url
           failed_at == errors[url]
       IN  IF failed_at # None /\ now - failed_at[1] < ERROR_RETRY_SECS
           THEN /\ calls' = [calls EXCEPT ![c].pc = "done", ![c].result = "cooldown"]
                /\ UNCHANGED errors
           ELSE /\ calls' = [calls EXCEPT ![c].pc = "enter"]
                /\ errors' = [errors EXCEPT ![url] = None]
    /\ UNCHANGED <<inner, last_failure, now, config>>

\* line 53, the call enters try_get_with: it returns the cached value, or
\* waits for the init future that is running for the key, or runs its own
TryGetWith(c) ==
    /\ calls[c].pc = "enter"
    /\ LET url == calls[c].url
       IN  calls' = IF Cached(url) # None
                    THEN [calls EXCEPT ![c].pc = "done", ![c].result = Cached(url)[1]]
                    ELSE IF Loading(url) # {}
                    THEN [calls EXCEPT ![c].pc = "wait"]
                    ELSE [calls EXCEPT ![c].pc = "load", ![c].loaded = TRUE]
    /\ UNCHANGED <<inner, errors, last_failure, now, config>>

\* the calls after the init future of call c has resolved: c and the calls
\* that waited for it return its result
Resolve(c, result) ==
    [d \in CallIds |->
        IF d = c \/ (calls[d].url = calls[c].url /\ calls[d].pc = "wait")
        THEN [calls[d] EXCEPT !.pc = "done", !.result = result]
        ELSE calls[d]]

\* lines 55-58: load_schema returned a schema, try_get_with stores it
LoadOk(c, value) ==
    /\ calls[c].pc = "load"
    /\ inner' = [inner EXCEPT ![calls[c].url] = Some([value |-> value, at |-> now])]
    /\ calls' = Resolve(c, value)
    /\ UNCHANGED <<errors, last_failure, now, config>>

\* lines 59-63: load_schema failed
LoadErr(c) ==
    /\ calls[c].pc = "load"
    /\ errors' = RecordFailure(errors, calls[c].url, now).self_errors
    /\ last_failure' = [last_failure EXCEPT ![calls[c].url] = Some(now)]
    /\ calls' = Resolve(c, "err")
    /\ UNCHANGED <<inner, now, config>>

\* the get_or_fetch calls for the url that have begun and not returned
Running(url) ==
    {c \in CallsFor(url) : calls[c].pc \in {"check", "enter", "wait", "load"}}

\* lines 74-81, invalidate(url): the failure record is removed at once (line
\* 77); the entry of the positive map is invalidated by a task that is only
\* spawned here (lines 78-80), and invalidate returns without waiting for it.
\* Kept with the call: `quiet`, that no get_or_fetch call for the url was
\* running when invalidate was called.
invalidate(url) ==
    /\ Len(calls) < MaxCalls
    /\ errors' = [errors EXCEPT ![url] = None]
    /\ last_failure' = [last_failure EXCEPT ![url] = None]
    /\ calls' = Append(calls,
          [url |-> url, pc |-> "invalidate", fresh |-> FALSE, peers |-> {},
           after_failure |-> FALSE, loaded |-> FALSE, result |-> "",
           quiet |-> Running(url) = {}])
    /\ UNCHANGED <<inner, now, config>>

\* line 79, the spawned task runs: cache.invalidate(&url_owned).await
InvalidateTask(c) ==
    /\ calls[c].pc = "invalidate"
    /\ inner' = [inner EXCEPT ![calls[c].url] = None]
    /\ calls' = [calls EXCEPT ![c].pc = "invalidated"]
    /\ UNCHANGED <<errors, last_failure, now, config>>

\* time passes
Advance(t) ==
    /\ t > now
    /\ now' = t
    /\ UNCHANGED <<inner, errors, calls, last_failure, config>>

\* backend.rs 69-76, initialize: the options are parsed into a ServerConfig,
\* which is logged; the cache that Backend::new built is left as it is.
\* initialize is the first request of a session.
initialize(initialization_options) ==
    /\ config.initialized = None
    /\ calls = <<>> /\ now = 0
    /\ config' = [config EXCEPT !.initialized =
                     Some(IF initialization_options = None
                          THEN ServerConfigDefault
                          ELSE from_value(initialization_options[1]))]
    /\ UNCHANGED <<inner, errors, calls, last_failure, now>>

CacheIdle == UNCHANGED <<docVars, diagVars, scanner, nav, completion, listing>>

CacheInit ==
    /\ documents = <<>>
    /\ lastUpdate = NoCall
    /\ pending_diagnostics = <<>>
    /\ tasks = <<>>
    /\ outbox = <<>>
    /\ server = "running"
    /\ inner = [u \in Urls |-> None]
    /\ errors = [u \in Urls |-> None]
    /\ calls = <<>>
    /\ last_failure = [u \in Urls |-> None]
    /\ now = 0
    /\ config = BackendNew
    /\ scanner = <<>>
    /\ nav = <<>>
    /\ completion = <<>>
    /\ listing = <<>>

CacheNext ==
    \/ \E u \in Urls : get_or_fetch(u) /\ CacheIdle
    \/ \E c \in CallIds : CooldownCheck(c) /\ CacheIdle
    \/ \E c \in CallIds : TryGetWith(c) /\ CacheIdle
    \/ \E c \in CallIds, v \in SchemaValues : LoadOk(c, v) /\ CacheIdle
    \/ \E c \in CallIds : LoadErr(c) /\ CacheIdle
    \/ \E o \in InitializationOptions : initialize(o) /\ CacheIdle
    \/ \E u \in Urls : invalidate(u) /\ CacheIdle
    \/ \E c \in CallIds : InvalidateTask(c) /\ CacheIdle
    \/ \E t \in Instants : Advance(t) /\ CacheIdle

SpecCache == CacheInit /\ [][CacheNext]_vars

\* C3: of the concurrent get_or_fetch calls for a url that had neither an entry
\* nor a failure record, exactly one runs the loader, and all return the same
\* result.
C3_SingleFlight ==
    \A c \in CallIds : \A d \in calls[c].peers :
        (calls[c].fresh /\ calls[d].fresh)
            => /\ ~(calls[c].loaded /\ calls[d].loaded)
               /\ (calls[c].pc = "done" /\ calls[d].pc = "done")
                     => calls[c].result = calls[d].result

\* C4: a get_or_fetch call made less than ERROR_RETRY_SECS after a load of its
\* url failed does not run the loader and returns an error.
C4_CooldownRefusesLoad ==
    \A c \in CallIds :
        calls[c].after_failure
            => /\ ~calls[c].loaded
               /\ calls[c].pc = "done" => calls[c].result \in {"cooldown", "err"}

\* C8: no url has both an entry in the positive map and a failure record.
C8_NeverInBothMaps ==
    \A u \in Urls : ~(inner[u] # None /\ errors[u] # None)

\* a url whose load failed and whose later load succeeded
C8_Witness ==
    \E u \in Urls : inner[u] # None /\ last_failure[u] # None

C14_InvalidateClearsBoth ==
    \A c \in CallIds :
        (/\ calls[c].pc \in {"invalidate", "invalidated"}
         /\ calls[c].quiet
         /\ \A d \in CallsFor(calls[c].url) : d <= c)
            => /\ inner[calls[c].url] = None
               /\ errors[calls[c].url] = None

\* C15: once initialize has been handled, the positive map has the time to
\* live and the capacity of the configuration that initialize parsed from the
\* options (the defaults where the options give none), and a lookup does not
\* return an entry that is as old as that time to live.
C15_OptionsConfigureCache ==
    config.initialized # None =>
        LET options == config.initialized[1]
        IN  /\ config.schema_cache.schema_ttl_secs = options.schema_ttl_secs
            /\ config.schema_cache.schema_cache_capacity
                  = options.schema_cache_capacity
            /\ \A u \in Urls :
                  (inner[u] # None /\ now - inner[u][1].at >= options.schema_ttl_secs)
                     => Cached(u) = None

(***************************************************************************)
(* The position classifier (position.rs). The scanner works on the bytes   *)
(* of the text, with 0-based offsets; the recursion of scan_object,        *)
(* scan_array and scan_value is kept as a stack of frames, and one step    *)
(* is one iteration of the loop of the innermost scan_object or scan_array.*)
(***************************************************************************)
\* str::as_bytes: the bytes of a character, a byte of a multi-byte character
\* being a token that is no ASCII character
Utf8(ch) ==
    IF ch = "U+1F600" THEN <<"xF0", "x9F", "x98", "x80">>
    ELSE IF ch = "U+E9" THEN <<"xC3", "xA9">>
    ELSE <<ch>>

RECURSIVE as_bytes(_)
as_bytes(text) == IF text = <<>> THEN <<>> ELSE Utf8(Head(text)) \o as_bytes(Tail(text))

\* bytes[pos]
ByteAt(bytes, pos) == bytes[pos + 1]

\* the first loop of lsp_position_to_byte_offset, from the k-th character on:
\* "break" with the byte offset of the first character of the line, "none"
\* for the early return, "end" when the characters ran out
RECURSIVE FindLineStart(_, _, _, _)
FindLineStart(text, k, current_line, line) ==
    IF k > Len(text) THEN [exit |-> "end", current_line |-> current_line, line_start |-> 0]
    ELSE IF current_line = line
    THEN [exit |-> "break", current_line |-> current_line,
          line_start |-> ByteLen(text, k - 1)]
    ELSE LET next_line == IF text[k] = LF THEN current_line + 1 ELSE current_line
         IN  IF next_line > line
             THEN [exit |-> "none", current_line |-> next_line, line_start |-> 0]
             ELSE FindLineStart(text, k + 1, next_line, line)

\* the second loop of lsp_position_to_byte_offset, from the k-th character on
RECURSIVE WalkUtf16(_, _, _, _)
WalkUtf16(text, k, utf16_count, character) ==
    IF k > Len(text) THEN StrLen(text)
    ELSE IF utf16_count >= character THEN ByteLen(text, k - 1)
    ELSE WalkUtf16(text, k + 1, utf16_count + LenUtf16(text[k]), character)

\* the index of the character that begins at a byte offset
CharAt(text, offset) ==
    CHOOSE k \in 1..(Len(text) + 1) : ByteLen(text, k - 1) = offset

lsp_position_to_byte_offset(text, line, character) ==
    LET found == FindLineStart(text, 1, 0, line)
        walk(line_start) == Some(WalkUtf16(text, CharAt(text, line_start), 0, character))
    IN  IF found.exit = "none" THEN None
        ELSE IF found.current_line # line
        THEN IF found.current_line + 1 = line /\ text # <<>>
             THEN walk(StrLen(text))
             ELSE None
        ELSE walk(found.line_start)

RECURSIVE skip_whitespace(_, _)
skip_whitespace(bytes, pos) ==
    IF pos < Len(bytes) /\ ByteAt(bytes, pos) \in {" ", "\t", "\r", LF}
    THEN skip_whitespace(bytes, pos + 1) ELSE pos

RECURSIVE skip_literal(_, _)
skip_literal(bytes, pos) ==
    IF pos < Len(bytes) /\ ByteAt(bytes, pos) \notin {",", "}", "]", " ", "\t", "\r", LF}
    THEN skip_literal(bytes, pos + 1) ELSE pos

\* the character an escape stands for
Unescape(b) ==
    CASE b = "n" -> LF
      [] b = "r" -> "\r"
      [] b = "t" -> "\t"
      [] OTHER -> b

\* the while loop of scan_string, from pos on, with the content collected so far
RECURSIVE ScanStringLoop(_, _, _)
ScanStringLoop(bytes, pos, str) ==
    IF pos >= Len(bytes) THEN [pos |-> pos, s |-> str]
    ELSE LET ch == ByteAt(bytes, pos)
         IN  IF ch = "\"" THEN [pos |-> pos + 1, s |-> str]
             ELSE IF ch = "\\"
             THEN IF pos + 1 >= Len(bytes) THEN ScanStringLoop(bytes, pos + 1, str)
                  ELSE IF ByteAt(bytes, pos + 1) = "u"
                  THEN ScanStringLoop(bytes, Min(pos + 5, Len(bytes)), Append(str, "?"))
                  ELSE ScanStringLoop(bytes, pos + 2,
                                      Append(str, Unescape(ByteAt(bytes, pos + 1))))
             ELSE ScanStringLoop(bytes, pos + 1, Append(str, ch))

scan_string(bytes, pos) ==
    IF pos >= Len(bytes) \/ ByteAt(bytes, pos) # "\""
    THEN [pos |-> pos, s |-> <<>>]
    ELSE ScanStringLoop(bytes, pos + 1, <<>>)

\* PositionContext and PathSegment
Unknown == [kind |-> "Unknown", path |-> <<>>]
Context(kind, path) == [kind |-> kind, path |-> path]
Key(str) == <<"Key", str>>
Index(n) == <<"Index", n>>

\* the scan has returned to position_to_context with this result
Finish(sc, result) ==
    [sc EXCEPT !.status = "done", !.result = result, !.frames = <<>>, !.path = <<>>,
               !.pos = 0, !.advanced = TRUE]

\* the innermost scan_object or scan_array returns with the result Unknown: its
\* caller pops the segment it pushed and goes on with its own loop
Return(sc, pos) ==
    IF Len(sc.frames) = 1 THEN Finish(sc, Unknown)
    ELSE [sc EXCEPT !.frames = SubSeq(sc.frames, 1, Len(sc.frames) - 1),
                    !.path = SubSeq(sc.path, 1, Len(sc.path) - 1),
                    !.pos = pos, !.advanced = TRUE]

\* the loop goes to its next iteration; `advanced` keeps whether the iteration
\* that ends moved the cursor forward
Continue(sc, pos, index) ==
    [sc EXCEPT !.pos = pos, !.frames[Len(sc.frames)].index = index,
               !.advanced = pos > sc.pos]

\* scan_value at pos, with the segment of the value already pushed on path; a
\* '{' or '[' enters scan_object or scan_array, which consumes it
scan_value(sc, pos, path, index) ==
    IF pos >= Len(sc.bytes) THEN Continue(sc, pos, index)
    ELSE LET ch == ByteAt(sc.bytes, pos)
         IN  IF ch \in {"{", "["}
             THEN IF sc.target = pos THEN Finish(sc, Context("ValueStart", path))
                  ELSE [sc EXCEPT !.pos = pos + 1, !.path = path,
                                  !.frames = Append([sc.frames EXCEPT ![Len(sc.frames)].index = index],
                                                    [kind |-> IF ch = "{" THEN "object" ELSE "array",
                                                     index |-> 0]),
                                  !.advanced = TRUE]
             ELSE LET end == IF ch = "\"" THEN scan_string(sc.bytes, pos).pos
                             ELSE skip_literal(sc.bytes, pos)
                  IN  IF sc.target >= pos /\ sc.target <= end
                      THEN Finish(sc, Context("Value", path))
                      ELSE Continue(sc, end, index)

\* one iteration of the loop of scan_object
object_iteration(sc) ==
    LET bytes == sc.bytes
        pos == skip_whitespace(bytes, sc.pos)
    IN  IF pos >= Len(bytes) THEN Return(sc, pos)
        ELSE IF ByteAt(bytes, pos) = "}" THEN Return(sc, pos + 1)
        ELSE IF ByteAt(bytes, pos) = "," THEN Continue(sc, pos + 1, 0)
        ELSE IF ByteAt(bytes, pos) # "\"" THEN Continue(sc, pos + 1, 0)
        ELSE IF sc.target = pos THEN Finish(sc, Context("KeyStart", sc.path))
        ELSE
          LET key_start == pos
              key == scan_string(bytes, pos)
              key_path == Append(sc.path, Key(key.s))
              colon == skip_whitespace(bytes, key.pos)
              after == IF colon < Len(bytes) /\ ByteAt(bytes, colon) = ":"
                       THEN colon + 1 ELSE colon
              value == skip_whitespace(bytes, after)
          IN  IF sc.target > key_start /\ sc.target <= key.pos
              THEN Finish(sc, Context("Key", key_path))
              ELSE IF colon >= Len(bytes) THEN Return(sc, colon)
              ELSE IF value >= Len(bytes) THEN Return(sc, value)
              ELSE IF sc.target > key_start /\ sc.target <= value
              THEN Finish(sc, Context("ValueStart", key_path))
              ELSE scan_value(sc, value, key_path, 0)

\* one iteration of the loop of scan_array
array_iteration(sc) ==
    LET bytes == sc.bytes
        pos == skip_whitespace(bytes, sc.pos)
        index == sc.frames[Len(sc.frames)].index
    IN  IF pos >= Len(bytes) THEN Return(sc, pos)
        ELSE IF ByteAt(bytes, pos) = "]" THEN Return(sc, pos + 1)
        ELSE IF ByteAt(bytes, pos) = "," THEN Continue(sc, pos + 1, index + 1)
        ELSE IF sc.target = pos
        THEN Finish(sc, Context("ValueStart", Append(sc.path, Index(index))))
        ELSE scan_value(sc, pos, Append(sc.path, Index(index)), index)

\* position_to_context up to the call of scan_object, which consumes the '{'
start_scan(text, line, character) ==
    LET target == lsp_position_to_byte_offset(text, line, character)
        bytes == as_bytes(text)
        pos == skip_whitespace(bytes, 0)
        sc == [status |-> "scan", text |-> text, line |-> line, character |-> character,
               bytes |-> bytes, target |-> IF target = None THEN 0 ELSE target[1],
               pos |-> pos + 1, path |-> <<>>,
               frames |-> <<[kind |-> "object", index |-> 0]>>,
               result |-> Unknown, advanced |-> TRUE]
    IN  IF target = None THEN Finish(sc, Unknown)
        ELSE IF pos >= Len(bytes) \/ ByteAt(bytes, pos) # "{" THEN Finish(sc, Unknown)
        ELSE sc

MaxBody == 2
MaxLine == 1
ScanAlphabet == {"{", "}", "[", "]", "\"", ":", ",", "1", " "}

\* the sequences of at most n bytes of the alphabet
RECURSIVE Bodies(_)
Bodies(n) ==
    IF n = 0 THEN {<<>>}
    ELSE Bodies(n - 1) \cup {Append(b, ch) : b \in Bodies(n - 1), ch \in ScanAlphabet}

\* well-formed objects: {}  {"a":[1,2]}  {"a":{"b":1}}  {"e-acute":"emoji"}
\* {"a":1,\n"b":[2]}   {\n  "k": "emoji x"\n}
ObjEmpty == <<"{", "}">>
ObjArray == <<"{", "\"", "a", "\"", ":", "[", "1", ",", "2", "]", "}">>
ObjNested == <<"{", "\"", "a", "\"", ":", "{", "\"", "b", "\"", ":", "1", "}", "}">>
ObjUnicode == <<"{", "\"", "U+E9", "\"", ":", "\"", "U+1F600", "\"", "}">>
ObjTwoLines ==
    <<"{", "\"", "a", "\"", ":", "1", ",", LF, "\"", "b", "\"", ":", "[", "2", "]", "}">>

ObjEmojiLine ==
    <<"{", LF, " ", " ", "\"", "k", "\"", ":", " ", "\"", "U+1F600", "x", "\"", LF, "}">>

ValidObjects == {ObjEmpty, ObjArray, ObjNested, ObjUnicode, ObjTwoLines, ObjEmojiLine}

\* {"a":["b"],"b":"a"}
ObjStrings ==
    <<"{", "\"", "a", "\"", ":", "[", "\"", "b", "\"", "]", ",",
      "\"", "b", "\"", ":", "\"", "a", "\"", "}">>

\* documents, well formed and not: the objects above,  {"a":[}  and  [1]
ScanSamples ==
    ValidObjects \cup
    {ObjStrings,
     <<"{", "\"", "a", "\"", ":", "[", "}">>,
     <<" ", "[", "1", "]">>,
     <<"{", LF>>}

\* the columns a cursor is given in the text: up to the end of its longest line
\* and past it
Columns(text) ==
    0..(IF Utf16Len(text) > MaxBody + 2 THEN Utf16Len(text) ELSE MaxBody + 2)

ScanTexts == {<<>>} \cup {<<"{">> \o b : b \in Bodies(MaxBody)} \cup ScanSamples

\* a call of position_to_context that has not begun
ScanInput(text, line, character) ==
    [status |-> "input", text |-> text, line |-> line, character |-> character,
     bytes |-> <<>>, target |-> 0, pos |-> 0, path |-> <<>>, frames |-> <<>>,
     result |-> Unknown, advanced |-> TRUE]

ScanTop == scanner.frames[Len(scanner.frames)]

position_to_context ==
    /\ scanner.status = "input"
    /\ scanner' = start_scan(scanner.text, scanner.line, scanner.character)

scan_object ==
    /\ scanner.status = "scan"
    /\ ScanTop.kind = "object"
    /\ scanner' = object_iteration(scanner)

scan_array ==
    /\ scanner.status = "scan"
    /\ ScanTop.kind = "array"
    /\ scanner' = array_iteration(scanner)

PosIdle == UNCHANGED <<docVars, diagVars, cacheVars, nav, completion, listing>>

PosInit ==
    /\ documents = <<>>
    /\ lastUpdate = NoCall
    /\ pending_diagnostics = <<>>
    /\ tasks = <<>>
    /\ outbox = <<>>
    /\ server = "running"
    /\ inner = <<>>
    /\ errors = <<>>
    /\ calls = <<>>
    /\ last_failure = <<>>
    /\ now = 0
    /\ config = BackendNew
    /\ scanner \in UNION {{ScanInput(t, l, c) : l \in 0..MaxLine, c \in Columns(t)} :
                            t \in ScanTexts}
    /\ nav = <<>>
    /\ completion = <<>>
    /\ listing = <<>>

PosNext ==
    \/ position_to_context /\ PosIdle
    \/ scan_object /\ PosIdle
    \/ scan_array /\ PosIdle

SpecPos == PosInit /\ [][PosNext]_vars

\* C5: every iteration of the loops of scan_object and scan_array moves the
\* cursor forward by at least one byte or leaves the loop, so that the scan ends
\* and position_to_context returns a context for every text and position.
C5_ScanAdvances == scanner.advanced

\* the byte offset that position_to_context computed for the cursor, if any
Target == lsp_position_to_byte_offset(scanner.text, scanner.line, scanner.character)

\* C22: for a well-formed object and a cursor at any byte offset from its
\* opening brace to its closing brace, position_to_context returns a context
\* other than Unknown.
C22_InsideObjectIsClassified ==
    (/\ scanner.status = "done"
     /\ scanner.text \in ValidObjects
     /\ Target # None
     /\ Target[1] <= Len(scanner.bytes) - 1)
        => scanner.result.kind # "Unknown"

\* The keys and values of the well-formed objects, read off the texts: the
\* path of each, and its byte range from its first byte to the offset just
\* after its last byte.
Loc(kind, path, from, to) == [kind |-> kind, path |-> path, from |-> from, to |-> to]

Locations(text) ==
    CASE text = ObjArray ->
            {Loc("Key", <<Key(<<"a">>)>>, 1, 4),
             Loc("Value", <<Key(<<"a">>)>>, 5, 10),
             Loc("Value", <<Key(<<"a">>), Index(0)>>, 6, 7),
             Loc("Value", <<Key(<<"a">>), Index(1)>>, 8, 9)}
      [] text = ObjNested ->
            {Loc("Key", <<Key(<<"a">>)>>, 1, 4),
             Loc("Value", <<Key(<<"a">>)>>, 5, 12),
             Loc("Key", <<Key(<<"a">>), Key(<<"b">>)>>, 6, 9),
             Loc("Value", <<Key(<<"a">>), Key(<<"b">>)>>, 10, 11)}
      [] text = ObjUnicode ->
            {Loc("Key", <<Key(<<"U+E9">>)>>, 1, 5),
             Loc("Value", <<Key(<<"U+E9">>)>>, 6, 12)}
      [] text = ObjTwoLines ->
            {Loc("Key", <<Key(<<"a">>)>>, 1, 4),
             Loc("Value", <<Key(<<"a">>)>>, 5, 6),
             Loc("Key", <<Key(<<"b">>)>>, 8, 11),
             Loc("Value", <<Key(<<"b">>)>>, 12, 15),
             Loc("Value", <<Key(<<"b">>), Index(0)>>, 13, 14)}
      [] text = ObjEmojiLine ->
            {Loc("Key", <<Key(<<"k">>)>>, 4, 7),
             Loc("Value", <<Key(<<"k">>)>>, 9, 16)}
      [] OTHER -> {}

\* C23: when position_to_context returns Key{p} or Value{p} for a well-formed
\* object, p is the path of a key (of a value) of the text whose byte range
\* contains the target offset.
C23_PathCoversTarget ==
    (/\ scanner.status = "done"
     /\ scanner.text \in ValidObjects
     /\ scanner.result.kind \in {"Key", "Value"})
        => \E loc \in Locations(scanner.text) :
              /\ loc.kind = scanner.result.kind
              /\ loc.path = scanner.result.path
              /\ Target # None
              /\ loc.from <= Target[1] /\ Target[1] <= loc.to

\* C24: when the cursor is in a key string of a well-formed object, after its
\* opening quote and up to the offset just after its closing quote,
\* position_to_context returns Key{path} with the path of that key: the path
\* of the enclosing object followed by the key.
C24_KeyPathIncludesKey ==
    (/\ scanner.status = "done"
     /\ Target # None)
        => \A loc \in Locations(scanner.text) :
              (loc.kind = "Key" /\ loc.from < Target[1] /\ Target[1] <= loc.to)
                 => scanner.result = Context("Key", loc.path)

\* the number of UTF-16 code units of the characters: one each, and one more
\* for each character outside the BMP
CodeUnits(chars) ==
    Len(chars) + Cardinality({i \in 1..Len(chars) : chars[i] = "U+1F600"})

\* the characters outside the BMP that the cursor is just after: the indices k
\* of such characters on the cursor's line for which the cursor's column is
\* the number of code units of the line up to and including the character
AfterSurrogatePair ==
    {k \in 1..Len(scanner.text) :
        /\ scanner.text[k] = "U+1F600"
        /\ LET breaks == {i \in 1..k : scanner.text[i] = LF}
               line_start == IF breaks = {} THEN 0
                             ELSE CHOOSE i \in breaks : \A j \in breaks : j <= i
           IN  /\ Cardinality(breaks) = scanner.line
               /\ CodeUnits(SubSeq(scanner.text, line_start + 1, k)) = scanner.character}

\* C25: a cursor whose column is the number of UTF-16 code units of its line up
\* to and including a character outside the BMP is mapped to the location just
\* after that character: to the byte offset after its four bytes by
\* position_to_context, and to the char index after it by lsp_pos_to_char_idx.
C25_SurrogatePairExact ==
    \A k \in AfterSurrogatePair :
        /\ scanner.status # "input" =>
              (Target # None /\ scanner.target = ByteLen(scanner.text, k))
        /\ lsp_pos_to_char_idx(scanner.text, Pos(scanner.line, scanner.character))
              = [ok |-> TRUE, v |-> k]

\* position_to_context was called with the cursor just after a character
\* outside the BMP, on the first line or on a later one
C25_Witness ==
    /\ scanner.status = "done"
    /\ scanner.line > 0
    /\ AfterSurrogatePair # {}

\* C26: for a non-empty text and a cursor on a line that the text does not
\* have (a line index that is at least the number of lines of the text),
\* position_to_context returns Unknown.
C26_MissingLineIsUnknown ==
    (/\ scanner.status = "done"
     /\ scanner.text # <<>>
     /\ scanner.line >= len_lines(scanner.text))
        => scanner.result = Unknown

\* the quoted string values of the sample texts: the path of the value, the
\* offset of its opening quote and the offset of its closing quote
StringValue(path, first, last) == [path |-> path, first |-> first, last |-> last]

StringValues(text) ==
    CASE text = ObjStrings ->
            {StringValue(<<Key(<<"a">>), Index(0)>>, 6, 8),
             StringValue(<<Key(<<"b">>)>>, 15, 17)}
      [] text = ObjEmojiLine -> {StringValue(<<Key(<<"k">>)>>, 9, 15)}
      [] OTHER -> {}

\* C32: when the target offset is in the byte range of a quoted string value,
\* from its opening quote to its closing quote, position_to_context returns
\* Value{path} with the path of that value, for a member of an object and for
\* an element of an array.
C32_StringValueIsValue ==
    (scanner.status = "done" /\ Target # None)
        => \A value \in StringValues(scanner.text) :
              (value.first <= Target[1] /\ Target[1] <= value.last)
                 => scanner.result = Context("Value", value.path)

(***************************************************************************)
(* The schema navigator (schema/navigator.rs). A JSON value is a record    *)
(* with its type and content: an object is a function from keys to values, *)
(* an array a sequence of values. The reference to a value inside the root *)
(* document, whose address navigate_inner keeps in `visited`, is the       *)
(* sequence of keys and indices that leads to it from the root. A string   *)
(* that is parsed ("$ref") is the sequence of its parts, '#' and '/' being *)
(* parts of their own.                                                     *)
(***************************************************************************)
Obj(fields) == [t |-> "object", v |-> fields]
Arr(elems) == [t |-> "array", v |-> elems]
Str(parts) == [t |-> "string", v |-> parts]
Scalar == [t |-> "other", v |-> <<>>]
Empty == Obj(<<>>)

\* the decimal form of an array index
IndexTokens == <<"0", "1", "2", "3">>
ToToken(i) == IndexTokens[i + 1]

\* serde_json's parse_index
parse_index(token) ==
    IF \E i \in 1..Len(IndexTokens) : IndexTokens[i] = token
    THEN Some((CHOOSE i \in 1..Len(IndexTokens) : IndexTokens[i] = token) - 1)
    ELSE None

\* the value that a reference points to
RECURSIVE Deref(_, _)
Deref(root, ref) ==
    IF ref = <<>> THEN root
    ELSE LET parent == Deref(root, SubSeq(ref, 1, Len(ref) - 1))
             token == ref[Len(ref)]
         IN  IF parent.t = "object" THEN parent.v[token]
             ELSE parent.v[parse_index(token)[1] + 1]

\* Value::get with a key: the reference to the member, if the value is an
\* object that has it
get(root, ref, key) ==
    LET val == Deref(root, ref)
    IN  IF val.t = "object" /\ key \in DOMAIN val.v THEN Some(Append(ref, key)) ELSE None

\* as_array().and_then(|a| a.get(idx))
get_index(root, ref, idx) ==
    LET val == Deref(root, ref)
    IN  IF val.t = "array" /\ idx < Len(val.v) THEN Some(Append(ref, ToToken(idx))) ELSE None

is_object(root, ref) == Deref(root, ref).t = "object"
is_array(root, ref) == Deref(root, ref).t = "array"

\* str::split('/') of the parts of a string
RECURSIVE SplitSlash(_, _)
SplitSlash(parts, token) ==
    IF parts = <<>> THEN <<token>>
    ELSE IF Head(parts) = "/" THEN <<token>> \o SplitSlash(Tail(parts), "")
    ELSE SplitSlash(Tail(parts), Head(parts))

\* the try_fold of Value::pointer: one step for each token
RECURSIVE FollowTokens(_, _, _)
FollowTokens(root, ref, tokens) ==
    IF tokens = <<>> THEN Some(ref)
    ELSE LET val == Deref(root, ref)
             next == IF val.t = "object" THEN get(root, ref, Head(tokens))
                     ELSE IF val.t = "array"
                     THEN IF parse_index(Head(tokens)) = None THEN None
                          ELSE get_index(root, ref, parse_index(Head(tokens))[1])
                     ELSE None
         IN  IF next = None THEN None ELSE FollowTokens(root, next[1], Tail(tokens))

\* Value::pointer, on the parts of a pointer without '~' escapes
pointer(root, parts) ==
    IF parts = <<>> THEN Some(<<>>)
    ELSE IF Head(parts) # "/" THEN None
    ELSE FollowTokens(root, <<>>, Tail(SplitSlash(parts, "")))

\* HashSet::contains
contains_never(set, ptr) == FALSE
contains(set, ptr) == ptr \in set

\* resolve_ref: the value referred to, if any, and `visited` afterwards;
\* `guarded` tells that the guard on the root stopped the resolution
resolve_ref(root, schema, visited) ==
    LET ref == get(root, schema, "$ref")
        no == [target |-> None, visited |-> visited, guarded |-> FALSE]
    IN  IF ref = None THEN no
        ELSE LET ref_str == Deref(root, ref[1])
             IN  IF ref_str.t # "string" THEN no
                 ELSE IF ref_str.v = <<>> \/ Head(ref_str.v) # "#" THEN no
                 ELSE IF contains(visited, <<>>) THEN [no EXCEPT !.guarded = TRUE]
                 ELSE [target |-> pointer(root, Tail(ref_str.v)),
                       visited |-> visited \cup {<<>>}, guarded |-> FALSE]

\* SchemaNode::resolved: resolve_ref with a new `visited`
resolved(root, schema) ==
    LET target == resolve_ref(root, schema, {}).target
    IN  IF target = None THEN schema ELSE target[1]

\* the characters of the keys and patterns of the schemas below
KeyChars ==
    [a |-> <<"a">>, b |-> <<"b">>, xa |-> <<"x", "a">>, x |-> <<"x">>] @@
    ("^x" :> <<"^", "x">>) @@ ("" :> <<>>)
Spell(str) == KeyChars[str]

\* a pattern that matches no key
regex_never(pattern, value) == FALSE

\* str::trim_start_matches('^')
RECURSIVE TrimCarets(_)
TrimCarets(chars) ==
    IF chars # <<>> /\ Head(chars) = "^" THEN TrimCarets(Tail(chars)) ELSE chars

regex_lite_match(pattern, value) ==
    IF Spell(pattern) # <<>> /\ Head(Spell(pattern)) = "^"
    THEN MatchAt(Spell(value), TrimCarets(Spell(pattern)), 1)
    ELSE Spell(pattern) = <<>> \/ Find(Spell(value), Spell(pattern)) # 0

\* try_navigate_segment for a key
navigate_key(root, schema, key) ==
    LET properties == get(root, schema, "properties")
        prop == IF properties = None THEN None ELSE get(root, properties[1], key)
        pattern_props == get(root, schema, "patternProperties")
        matching == IF pattern_props = None \/ ~is_object(root, pattern_props[1]) THEN {}
                    ELSE {pattern \in DOMAIN Deref(root, pattern_props[1]).v :
                             regex_lite_match(pattern, key)}
        ap == get(root, schema, "additionalProperties")
    IN  IF prop # None THEN prop
        ELSE IF matching # {}
        THEN Some(Append(pattern_props[1], CHOOSE pattern \in matching : TRUE))
        ELSE IF ap # None /\ is_object(root, ap[1]) THEN ap
        ELSE None

\* try_navigate_segment for an index
navigate_index(root, schema, idx) ==
    LET items == get(root, schema, "items")
        prefix == get(root, schema, "prefixItems")
        item == IF items = None THEN None ELSE get_index(root, items[1], idx)
        prefix_item == IF prefix = None THEN None ELSE get_index(root, prefix[1], idx)
    IN  IF items # None /\ is_object(root, items[1]) THEN items
        ELSE IF item # None THEN item
        ELSE prefix_item

try_navigate_segment(root, schema, segment) ==
    IF segment[1] = "Key" THEN navigate_key(root, schema, segment[2])
    ELSE navigate_index(root, schema, segment[2])

Combinators == <<"allOf", "anyOf", "oneOf">>

\* the sub-schemas that the loops of navigate_inner over allOf, anyOf and oneOf
\* visit, in order
RECURSIVE SubSchemas(_, _, _)
SubSchemas(root, schema, k) ==
    IF k > Len(Combinators) THEN <<>>
    ELSE LET arr == get(root, schema, Combinators[k])
             subs == IF arr = None \/ ~is_array(root, arr[1]) THEN <<>>
                     ELSE [i \in 1..Len(Deref(root, arr[1]).v) |->
                              Append(arr[1], ToToken(i - 1))]
         IN  subs \o SubSchemas(root, schema, k + 1)

\* a call of navigate_inner that is about to begin
EnterFrame(schema, path) == [pc |-> "enter", schema |-> schema, path |-> path, next |-> 1]

\* navigate has returned
NavDone(nv, result) ==
    [nv EXCEPT !.status = "done", !.result = result, !.frames = <<>>]

\* the innermost navigate_inner returns None: its caller, which is in the loops
\* over the sub-schemas, goes on
NavReturnNone(nv) ==
    IF Len(nv.frames) = 1 THEN NavDone(nv, None)
    ELSE [nv EXCEPT !.frames = SubSeq(nv.frames, 1, Len(nv.frames) - 1)]

\* navigate_inner from its beginning to its first call or return
enter_navigate_inner(nv) ==
    LET top == nv.frames[Len(nv.frames)]
        ptr == top.schema
        resolution == resolve_ref(nv.root, ptr, nv.visited \cup {ptr})
        schema == IF resolution.target = None THEN ptr ELSE resolution.target[1]
        seen == [nv EXCEPT !.visited = resolution.visited,
                           !.guarded = nv.guarded \/ resolution.guarded]
        node == try_navigate_segment(nv.root, schema, Head(top.path))
    IN  IF contains(nv.visited, ptr) THEN NavReturnNone([nv EXCEPT !.guarded = TRUE])
        ELSE IF top.path = <<>> THEN NavDone(seen, Some(schema))
        ELSE IF node # None
        THEN [seen EXCEPT !.frames[Len(nv.frames)] = EnterFrame(node[1], Tail(top.path))]
        ELSE [seen EXCEPT !.frames[Len(nv.frames)] =
                             [pc |-> "subs", schema |-> schema, path |-> top.path, next |-> 1]]

\* one iteration of the loops over the sub-schemas: the call of navigate_inner
\* for the next one, or the return of None after the last
next_sub_schema(nv) ==
    LET top == nv.frames[Len(nv.frames)]
        subs == SubSchemas(nv.root, top.schema, 1)
    IN  IF top.next > Len(subs) THEN NavReturnNone(nv)
        ELSE [nv EXCEPT !.frames = Append([nv.frames EXCEPT ![Len(nv.frames)].next = top.next + 1],
                                          EnterFrame(subs[top.next], top.path))]

MaxPath == 2

Ref(parts) == "$ref" :> Str(parts)

\* {"properties": {"a": {"$ref": "#"}}}
SchemaSelf == Obj([properties |-> Obj([a |-> Obj(Ref(<<"#">>))])])

\* {"allOf": [{"$ref": "#"}, {"properties": {"b": {}}}],
\*  "properties": {"a": {"anyOf": [{"$ref": "#/allOf/0"}]}}}
SchemaAllOf ==
    Obj([allOf |-> Arr(<<Obj(Ref(<<"#">>)), Obj([properties |-> Obj([b |-> Empty])])>>),
         properties |-> Obj([a |-> Obj([anyOf |-> Arr(<<Obj(Ref(<<"#", "/", "allOf", "/", "0">>))>>)])])])

\* {"definitions": {"a": {"properties": {"b": {"$ref": "#/definitions/a"}}}},
\*  "properties": {"a": {"$ref": "#/definitions/a"}},
\*  "items": {"$ref": "http://x#/a"}}
SchemaDefs ==
    Obj([definitions |-> Obj([a |-> Obj([properties |->
                                  Obj([b |-> Obj(Ref(<<"#", "/", "definitions", "/", "a">>))])])]),
         properties |-> Obj([a |-> Obj(Ref(<<"#", "/", "definitions", "/", "a">>))]),
         items |-> Obj(Ref(<<"http://x", "#", "/", "a">>))])

\* {"patternProperties": {"^x": {"items": [{}, {"oneOf": [{"items": {}}]}]}},
\*  "additionalProperties": {"prefixItems": [{"properties": {"a": 1}}]},
\*  "items": [true]}
SchemaItems ==
    Obj([patternProperties |->
             Obj("^x" :> Obj([items |-> Arr(<<Empty, Obj([oneOf |-> Arr(<<Obj([items |-> Empty])>>)])>>)])),
         additionalProperties |->
             Obj([prefixItems |-> Arr(<<Obj([properties |-> Obj([a |-> Scalar])])>>)]),
         items |-> Arr(<<Scalar>>)])

\* {"definitions": {"a": {"properties": {"b": {}}}},
\*  "properties": {"a": {"$ref": "#/definitions/a",
\*                        "allOf": [{"properties": {"b": {}}}]}}}
SchemaSibling ==
    Obj([definitions |-> Obj([a |-> Obj([properties |-> Obj([b |-> Empty])])]),
         properties |->
             Obj([a |-> Obj(Ref(<<"#", "/", "definitions", "/", "a">>) @@
                            [allOf |-> Arr(<<Obj([properties |-> Obj([b |-> Empty])])>>)])])])

\* {"definitions": {"a": {"properties": {"b": {}}}},
\*  "allOf": [{"$ref": "#/definitions/a"},
\*            {"patternProperties": {"a": {}}, "additionalProperties": false}]}
SchemaRefBranch ==
    Obj([definitions |-> Obj([a |-> Obj([properties |-> Obj([b |-> Empty])])]),
         allOf |-> Arr(<<Obj(Ref(<<"#", "/", "definitions", "/", "a">>)),
                         Obj([patternProperties |-> Obj([a |-> Empty]),
                              additionalProperties |-> Scalar])>>)])

Schemas == {SchemaSelf, SchemaAllOf, SchemaDefs, SchemaItems, SchemaSibling, SchemaRefBranch}

Segments == {Key("a"), Key("b"), Key("xa"), Index(0), Index(1)}

RECURSIVE Paths(_)
Paths(n) ==
    IF n = 0 THEN {<<>>}
    ELSE Paths(n - 1) \cup {Append(p, seg) : p \in Paths(n - 1), seg \in Segments}

\* the values of a document that a node may have for its schema: the root, and
\* the sub-schemas that the root holds under its keywords
Starts(root) ==
    LET members(key) ==
            IF get(root, <<>>, key) = None THEN {}
            ELSE LET val == Deref(root, <<key>>)
                 IN  IF val.t = "object" THEN {<<key, k>> : k \in DOMAIN val.v}
                     ELSE IF val.t = "array" THEN {<<key, ToToken(i - 1)>> : i \in 1..Len(val.v)}
                     ELSE {}
        single(key) ==
            IF get(root, <<>>, key) # None /\ is_object(root, <<key>>) THEN {<<key>>} ELSE {}
    IN  {<<>>} \cup members("properties") \cup members("patternProperties")
               \cup members("allOf") \cup members("anyOf") \cup members("oneOf")
               \cup single("items") \cup single("additionalProperties")

\* a call of navigate that has not begun: the node's schema is the value at
\* `start` in the root document
NavInput(root, start, path) ==
    [status |-> "input", root |-> root, start |-> start, path |-> path,
     visited |-> {}, frames |-> <<>>, result |-> None, guarded |-> FALSE]

navigate ==
    /\ nav.status = "input"
    /\ nav' = [nav EXCEPT !.status = "run", !.frames = <<EnterFrame(nav.start, nav.path)>>]

navigate_inner ==
    /\ nav.status = "run"
    /\ nav.frames[Len(nav.frames)].pc = "enter"
    /\ nav' = enter_navigate_inner(nav)

sub_schemas ==
    /\ nav.status = "run"
    /\ nav.frames[Len(nav.frames)].pc = "subs"
    /\ nav' = next_sub_schema(nav)

NavIdle == UNCHANGED <<docVars, diagVars, cacheVars, scanner, completion, listing>>

NavInit ==
    /\ documents = <<>>
    /\ lastUpdate = NoCall
    /\ pending_diagnostics = <<>>
    /\ tasks = <<>>
    /\ outbox = <<>>
    /\ server = "running"
    /\ inner = <<>>
    /\ errors = <<>>
    /\ calls = <<>>
    /\ last_failure = <<>>
    /\ now = 0
    /\ config = BackendNew
    /\ scanner = <<>>
    /\ nav \in UNION {{NavInput(root, start, path) :
                           start \in Starts(root), path \in Paths(MaxPath)} : root \in Schemas}
    /\ completion = <<>>
    /\ listing = <<>>

NavNext ==
    \/ navigate /\ NavIdle
    \/ navigate_inner /\ NavIdle
    \/ sub_schemas /\ NavIdle

SpecNav == NavInit /\ [][NavNext]_vars

\* the references to the values of a document, from `ref` down
RECURSIVE Refs(_, _)
Refs(root, ref) ==
    LET val == Deref(root, ref)
        tokens == IF val.t = "object" THEN DOMAIN val.v
                  ELSE IF val.t = "array" THEN {ToToken(i - 1) : i \in 1..Len(val.v)}
                  ELSE {}
    IN  {ref} \cup UNION {Refs(root, Append(ref, tok)) : tok \in tokens}

\* what a frame still has to do: a call that is about to begin counts 1, a call
\* that is in its loops counts 2 for each sub-schema left and 1 for its return
RECURSIVE FrameWork(_, _)
FrameWork(nv, n) ==
    IF n = 0 THEN 0
    ELSE FrameWork(nv, n - 1) +
         (IF nv.frames[n].pc = "enter" THEN 1
          ELSE 2 * (Len(SubSchemas(nv.root, nv.frames[n].schema, 1)) - nv.frames[n].next + 1) + 1)

\* a bound on the steps that navigate can still take: the values not yet in
\* `visited`, each worth more than the work that a call can add, and the work
\* of the frames
Variant(nv) ==
    LET values == Refs(nv.root, <<>>)
        worth == 2 * Cardinality(values) + 2
    IN  IF nv.status = "done" THEN 0
        ELSE IF nv.status = "input" THEN worth * (Cardinality(values) + 1)
        ELSE worth * Cardinality(values \ nv.visited) + FrameWork(nv, Len(nv.frames))

\* C6: navigate terminates for every schema and every path, cyclic $ref
\* included: every step of navigate_inner lowers a bound on the steps that are
\* left, and a call that has not returned has a step to take.
C6_NavigateTerminates ==
    [][/\ Variant(nav') < Variant(nav)
       /\ Variant(nav') >= 0
       /\ nav'.status = "run" => nav'.frames # <<>>]_vars

\* navigate has returned after a guard stopped it on a value already visited
C6_Witness == nav.status = "done" /\ nav.guarded

\* SchemaNode::navigate as a function: the steps of navigate_inner, taken until
\* the call returns
RECURSIVE RunToEnd(_)
RunToEnd(nv) ==
    IF nv.status = "done" THEN nv.result
    ELSE IF nv.frames[Len(nv.frames)].pc = "enter" THEN RunToEnd(enter_navigate_inner(nv))
    ELSE RunToEnd(next_sub_schema(nv))

navigate_from(root, start, path) ==
    RunToEnd([NavInput(root, start, path) EXCEPT
                 !.status = "run", !.frames = <<EnterFrame(start, path)>>])

\* C27: navigation is compositional: navigate(path1 ++ path2) on a node yields
\* the schema node that navigate(path1) followed by navigate(path2) on its
\* result yields, whenever both are defined.
C27_NavigateComposes ==
    nav.status = "done" =>
        \A n \in 0..Len(nav.path) :
            LET path1 == SubSeq(nav.path, 1, n)
                path2 == SubSeq(nav.path, n + 1, Len(nav.path))
                first == navigate_from(nav.root, nav.start, path1)
                second == IF first = None THEN None
                          ELSE navigate_from(nav.root, first[1], path2)
            IN  (nav.result # None /\ second # None) => nav.result = second

\* the result of the first of the sub-schemas that has one for the path, each
\* navigated on its own
RECURSIVE FirstBranch(_, _, _)
FirstBranch(root, subs, path) ==
    IF subs = <<>> THEN None
    ELSE IF navigate_from(root, Head(subs), path) # None
    THEN navigate_from(root, Head(subs), path)
    ELSE FirstBranch(root, Tail(subs), path)

\* C33: when the first segment of the path has no direct dispatch on the node
\* (after its "$ref" was resolved), navigate returns what the first of the
\* sub-schemas of allOf, anyOf and oneOf, in this order and in array order,
\* gives for the whole path, and None only if none of them gives a node.
C33_FirstBranchWins ==
    (/\ nav.status = "done"
     /\ nav.path # <<>>
     /\ try_navigate_segment(nav.root, resolved(nav.root, nav.start), Head(nav.path)) = None)
        => nav.result
              = FirstBranch(nav.root,
                            SubSchemas(nav.root, resolved(nav.root, nav.start), 1),
                            nav.path)

\* whether a key matches a pattern: it starts with what follows a leading '^',
\* or it has the pattern inside
PatternMatches(pattern, k) ==
    LET p == KeyChars[pattern]
        c == KeyChars[k]
        at(part, i) == i + Len(part) <= Len(c) /\ SubSeq(c, i + 1, i + Len(part)) = part
    IN  IF p # <<>> /\ p[1] = "^" THEN at(Tail(p), 0)
        ELSE \E i \in 0..Len(c) : at(p, i)

\* the nodes that the dispatch of a key on a schema may give: the member of
\* "properties"; else a member of "patternProperties" whose pattern matches;
\* else "additionalProperties", if an object; else none
KeyDispatch(root, ref, k) ==
    LET val == Deref(root, ref)
        member(name) == IF val.t = "object" /\ name \in DOMAIN val.v /\ val.v[name].t = "object"
                        THEN val.v[name].v ELSE <<>>
        matching == {p \in DOMAIN member("patternProperties") : PatternMatches(p, k)}
    IN  IF k \in DOMAIN member("properties") THEN {Some(ref \o <<"properties", k>>)}
        ELSE IF matching # {} THEN {Some(ref \o <<"patternProperties", p>>) : p \in matching}
        ELSE IF val.t = "object" /\ "additionalProperties" \in DOMAIN val.v
                /\ val.v["additionalProperties"].t = "object"
        THEN {Some(ref \o <<"additionalProperties">>)}
        ELSE {None}

LocalRef(root, ref) ==
    LET val == Deref(root, ref)
    IN  IF /\ val.t = "object"
           /\ "$ref" \in DOMAIN val.v
           /\ val.v["$ref"].t = "string"
           /\ val.v["$ref"].v # <<>>
           /\ Head(val.v["$ref"].v) = "#"
        THEN pointer(root, Tail(val.v["$ref"].v))
        ELSE None

\* C28: in a navigation started at the root node, a call of navigate_inner
\* whose schema is an object with a local "$ref" that points to a value of
\* the root interprets the keywords of that value for the next segment of the
\* path: it goes on into a member of the referenced definition, or into the
\* allOf, anyOf and oneOf of the referenced definition.
C28_LocalRefResolvedFirst ==
    [][(/\ nav.status = "run"
        /\ nav.start = <<>>
        /\ nav.frames[Len(nav.frames)].pc = "enter"
        /\ nav.frames[Len(nav.frames)].path # <<>>
        /\ ~contains(nav.visited, nav.frames[Len(nav.frames)].schema)
        /\ LocalRef(nav.root, nav.frames[Len(nav.frames)].schema) # None)
       => LET target == LocalRef(nav.root, nav.frames[Len(nav.frames)].schema)[1]
              top == nav'.frames[Len(nav.frames)]
          IN  /\ nav'.status = "run"
              /\ Len(nav'.frames) = Len(nav.frames)
              /\ Len(top.schema) >= Len(target)
              /\ SubSeq(top.schema, 1, Len(target)) = target
              /\ top.pc = "subs" => top.schema = target]_vars

(***************************************************************************)
(* Completion (completion.rs, and the methods of SchemaNode that it calls).*)
(* A Vec<String> is a sequence of names; the text of an item is the        *)
(* sequence of its characters. The detail and the documentation of an      *)
(* item, which come from hover_info, are left out.                         *)
(***************************************************************************)
\* the names of the schemas below in the order of str
NameOrder == <<"", "a", "b", "x", "xa">>

\* Map::keys of an object, in the order of the map
keys(val) == SelectSeq(NameOrder, LAMBDA name : name \in DOMAIN val.v)

\* names.sort(); names.dedup()
sort_dedup(names) ==
    SelectSeq(NameOrder, LAMBDA name : \E i \in 1..Len(names) : names[i] = name)

RECURSIVE property_names(_, _)
RECURSIVE NamesOfSubs(_, _)

\* the loops of property_names over allOf, anyOf and oneOf
NamesOfSubs(root, subs) ==
    IF subs = <<>> THEN <<>>
    ELSE property_names(root, Head(subs)) \o NamesOfSubs(root, Tail(subs))

property_names(root, node) ==
    LET schema == resolved(root, node)
        props == get(root, schema, "properties")
        own == IF props = None \/ ~is_object(root, props[1]) THEN <<>>
               ELSE keys(Deref(root, props[1]))
    IN  sort_dedup(own \o NamesOfSubs(root, SubSchemas(root, schema, 1)))

\* the calls of property_names that the model follows inside one another
MaxStack == 4

\* a call of property_names that has run lines 80-85: the schema is resolved,
\* the keys of "properties" are in `names`, and `todo` are the sub-schemas of
\* allOf, anyOf and oneOf that the loops of lines 87-94 have left to visit
NamesFrame(root, node) ==
    LET schema == resolved(root, node)
        props == get(root, schema, "properties")
    IN  [node |-> node, schema |-> schema,
         names |-> IF props = None \/ ~is_object(root, props[1]) THEN <<>>
                   ELSE keys(Deref(root, props[1])),
         todo |-> SubSchemas(root, schema, 1)]

\* property_names was called on a node of a schema
ListingInput(root, node) ==
    [status |-> "running", root |-> root, node |-> node,
     stack |-> <<NamesFrame(root, node)>>, result |-> <<>>]

\* lines 90-92: the loop calls property_names on the next sub-schema
call_property_names ==
    /\ listing.status = "running"
    /\ Len(listing.stack) < MaxStack
    /\ listing.stack[Len(listing.stack)].todo # <<>>
    /\ listing' = [listing EXCEPT
          !.stack = Append(@, NamesFrame(listing.root, Head(@[Len(@)].todo)))]

\* lines 90-92 with MaxStack calls in progress: the model follows the calls no
\* further
deep_property_names ==
    /\ listing.status = "running"
    /\ Len(listing.stack) = MaxStack
    /\ listing.stack[Len(listing.stack)].todo # <<>>
    /\ listing' = [listing EXCEPT !.status = "deep"]

\* lines 96-98: the loops are over, the names are sorted and returned; line 92
\* of the caller extends its names with them
return_property_names ==
    /\ listing.status = "running"
    /\ listing.stack[Len(listing.stack)].todo = <<>>
    /\ LET n == Len(listing.stack)
           returned == sort_dedup(listing.stack[n].names)
       IN  listing' =
              IF n = 1
              THEN [listing EXCEPT !.status = "returned", !.stack = <<>>, !.result = returned]
              ELSE [listing EXCEPT
                       !.stack = [SubSeq(@, 1, n - 1) EXCEPT
                                     ![n - 1].names = @ \o returned,
                                     ![n - 1].todo = Tail(@)]]

\* format!("\"{}\"", s) for a string, to_string for another value
EnumText(val) ==
    IF val.t = "string" THEN <<"\"">> \o val.v \o <<"\"">> ELSE <<val.t>>

enum_values(root, node) ==
    LET e == get(root, resolved(root, node), "enum")
    IN  IF e = None \/ ~is_array(root, e[1]) THEN <<>>
        ELSE [i \in 1..Len(Deref(root, e[1]).v) |-> EnumText(Deref(root, e[1]).v[i])]

schema_type(root, node) ==
    LET t == get(root, resolved(root, node), "type")
    IN  IF t = None \/ Deref(root, t[1]).t # "string" THEN None
        ELSE Some(Deref(root, t[1]).v)

Item(label, insert_text) == [label |-> label, insert_text |-> insert_text]

make_snippet(label, insert_text) == Item(label, insert_text)

property_completions_from_names(names, include_leading_quote) ==
    [i \in 1..Len(names) |->
        Item(names[i],
             (IF include_leading_quote THEN <<"\"">> ELSE <<>>)
                 \o Spell(names[i]) \o <<"\"", ":", " ">>)]

value_completions(root, node) ==
    LET values == enum_values(root, node)
        type == schema_type(root, node)
    IN  IF values # <<>> THEN [i \in 1..Len(values) |-> Item(values[i], values[i])]
        ELSE IF type = Some(<<"boolean">>)
        THEN <<make_snippet(<<"true">>, <<"true">>), make_snippet(<<"false">>, <<"false">>)>>
        ELSE IF type = Some(<<"null">>) THEN <<make_snippet(<<"null">>, <<"null">>)>>
        ELSE IF type = Some(<<"array">>) THEN <<make_snippet(<<"[", "]">>, <<"[", "$1", "]">>)>>
        ELSE IF type = Some(<<"object">>) THEN <<make_snippet(<<"{", "}">>, <<"{", "$1", "}">>)>>
        ELSE IF type = Some(<<"string">>)
        THEN <<make_snippet(<<"\"", "\"">>, <<"\"", "$1", "\"">>)>>
        ELSE <<>>

\* the String of a key of the text, as the schemas spell it
Name(chars) == CHOOSE name \in DOMAIN KeyChars : KeyChars[name] = chars

\* the path of a context, for the navigator
to_segments(path) ==
    [i \in 1..Len(path) |->
        IF path[i][1] = "Key" THEN Key(Name(path[i][2])) ELSE path[i]]

\* handle_completion after the schema was fetched: None where it returns None
completion_items(root, context) ==
    LET path == to_segments(context.path)
        node == IF path = <<>> /\ context.kind \in {"Key", "KeyStart"} THEN Some(<<>>)
                ELSE navigate_from(root, <<>>, path)
        items == IF context.kind \in {"Key", "KeyStart"}
                 THEN property_completions_from_names(property_names(root, node[1]),
                                                      context.kind = "KeyStart")
                 ELSE value_completions(root, node[1])
    IN  IF context.kind = "Unknown" \/ node = None THEN None
        ELSE IF items = <<>> THEN None
        ELSE Some(items)

\* {"properties": {"a": {"properties": {"b": {"enum": ["a", 1]}}},
\*                 "b": {"type": "boolean"}}}
SchemaPlain ==
    Obj([properties |->
             Obj([a |-> Obj([properties |->
                                 Obj([b |-> Obj([enum |-> Arr(<<Str(<<"a">>), Scalar>>)])])]),
                  b |-> Obj([type |-> Str(<<"boolean">>)])])])

CompletionSchemas == {SchemaPlain, SchemaSibling, SchemaItems}

\* {"a":1,""}: an empty key that is being typed
ObjEmptyKey == <<"{", "\"", "a", "\"", ":", "1", ",", "\"", "\"", "}">>

\* {"b":1}
ObjBoolean == <<"{", "\"", "b", "\"", ":", "1", "}">>

CompletionTexts == {ObjEmptyKey, ObjBoolean, ObjArray, ObjNested}

\* a completion request for a document whose schema was fetched, or was not
CompletionRequest(schema) == [status |-> "request", schema |-> schema, response |-> None]

\* handle_completion, from the context that position_to_context returned
handle_completion ==
    /\ scanner.status = "done"
    /\ completion.status = "request"
    /\ completion' =
          [completion EXCEPT
              !.status = "responded",
              !.response = IF completion.schema = None THEN None
                           ELSE completion_items(completion.schema[1], scanner.result)]
    /\ UNCHANGED <<docVars, diagVars, cacheVars, scanner, nav, listing>>

CompletionInit ==
    /\ documents = <<>>
    /\ lastUpdate = NoCall
    /\ pending_diagnostics = <<>>
    /\ tasks = <<>>
    /\ outbox = <<>>
    /\ server = "running"
    /\ inner = <<>>
    /\ errors = <<>>
    /\ calls = <<>>
    /\ last_failure = <<>>
    /\ now = 0
    /\ config = BackendNew
    /\ scanner \in UNION {{ScanInput(t, 0, c) : c \in Columns(t)} : t \in CompletionTexts}
    /\ nav = <<>>
    /\ completion \in {CompletionRequest(None)}
                          \cup {CompletionRequest(Some(root)) : root \in CompletionSchemas}
    /\ listing = <<>>

CompletionNext ==
    \/ position_to_context /\ PosIdle
    \/ scan_object /\ PosIdle
    \/ scan_array /\ PosIdle
    \/ handle_completion

SpecCompletion == CompletionInit /\ [][CompletionNext]_vars

\* the schemas whose property names are listed
ListingSchemas == Schemas \cup {SchemaPlain}

ListingIdle == UNCHANGED <<docVars, diagVars, cacheVars, scanner, nav, completion>>

ListingInit ==
    /\ documents = <<>>
    /\ lastUpdate = NoCall
    /\ pending_diagnostics = <<>>
    /\ tasks = <<>>
    /\ outbox = <<>>
    /\ server = "running"
    /\ inner = <<>>
    /\ errors = <<>>
    /\ calls = <<>>
    /\ last_failure = <<>>
    /\ now = 0
    /\ config = BackendNew
    /\ scanner = <<>>
    /\ nav = <<>>
    /\ completion = <<>>
    /\ listing \in UNION {{ListingInput(root, node) : node \in Refs(root, <<>>)} :
                              root \in ListingSchemas}

ListingNext ==
    \/ call_property_names /\ ListingIdle
    \/ deep_property_names /\ ListingIdle
    \/ return_property_names /\ ListingIdle

SpecListing == ListingInit /\ [][ListingNext]_vars

\* a call of property_names that has returned gave what the recursion gives
ListingReturnsPropertyNames ==
    listing.status = "returned" => listing.result = property_names(listing.root, listing.node)

\* the schema of the value at a path of keys: the member of "properties" for
\* each key, a local "$ref" being followed first
RECURSIVE SchemaOf(_, _, _)
SchemaOf(root, ref, path) ==
    LET here == IF LocalRef(root, ref) = None THEN ref ELSE LocalRef(root, ref)[1]
        val == Deref(root, here)
    IN  IF path = <<>> THEN Some(here)
        ELSE IF /\ val.t = "object"
                /\ "properties" \in DOMAIN val.v
                /\ val.v["properties"].t = "object"
                /\ Head(path)[1] = "Key"
                /\ Head(path)[2] \in DOMAIN val.v["properties"].v
        THEN SchemaOf(root, here \o <<"properties", Head(path)[2]>>, Tail(path))
        ELSE None

\* the property names that a schema declares
DeclaredNames(root, ref) ==
    LET val == Deref(root, ref)
    IN  IF val.t = "object" /\ "properties" \in DOMAIN val.v /\ val.v["properties"].t = "object"
        THEN DOMAIN val.v["properties"].v
        ELSE {}

\* C29: for a cursor inside a quoted key of an object (a Key context) in a
\* document whose schema was fetched, completion returns one item for each
\* property name of the schema of the enclosing object, labelled with the
\* name, whose insert text is the name, a quote, a colon and a space, with no
\* quote in front.
C29_KeyCompletionListsProperties ==
    (/\ completion.status = "responded"
     /\ completion.schema # None
     /\ scanner.result.kind = "Key")
        => LET root == completion.schema[1]
               path == to_segments(scanner.result.path)
               enclosing == SchemaOf(root, <<>>, SubSeq(path, 1, Len(path) - 1))
               names == DeclaredNames(root, enclosing[1])
               items == completion.response[1]
           IN  (enclosing # None /\ names # {})
                   => /\ completion.response # None
                      /\ Len(items) = Cardinality(names)
                      /\ {items[i].label : i \in 1..Len(items)} = names
                      /\ \A i \in 1..Len(items) :
                             items[i].insert_text
                                 = Spell(items[i].label) \o <<"\"", ":", " ">>

(***************************************************************************)
(* validate_document (diagnostics.rs) in one diagnostics task: the task of *)
(* an open document has slept its DEBOUNCE_MS and runs, in parallel with   *)
(* the handlers. The tasks that the handlers spawn meanwhile stay in their *)
(* sleep: the passing of time is the matter of SpecBackend.                *)
(***************************************************************************)
\* {"$schema":"s"   (the text ends too early)
TextTruncated ==
    <<"{", "\"", "$", "s", "c", "h", "e", "m", "a", "\"", ":", "\"", "s", "\"">>

\* {"$schema":"s",
\* ]
TextStrayBracket ==
    <<"{", "\"", "$", "s", "c", "h", "e", "m", "a", "\"", ":", "\"", "s", "\"", ",", LF, "]">>

\* a text without "$schema" that is no JSON
TextBroken == <<"{">>

ValidateTexts == {TextPlain, TextBroken, TextSchema, TextTruncated, TextStrayBracket}

\* the changes of a did_change: a full replacement, and a range on a line that
\* no text has
ValidateChanges ==
    {<<Full(t)>> : t \in ValidateTexts} \cup {<<Ranged(Pos(9, 0), Pos(9, 0), <<"x">>)>>}

\* the task of did_open, polled after its sleep
AwakeTask(uri) ==
    [uri |-> uri, age |-> DEBOUNCE_MS, near |-> {}, pc |-> "get_text",
     cancelled |-> FALSE, published |-> FALSE, stale |-> FALSE,
     text |-> None, schema_url |-> None, fetched |-> "", basis |-> 0]

ValidateInit ==
    /\ documents \in {[u \in Uris |-> Some(open(1, t))] : t \in ValidateTexts}
    /\ lastUpdate = NoCall
    /\ pending_diagnostics = [u \in Uris |-> Some(1)]
    /\ tasks = <<AwakeTask(CHOOSE u \in Uris : TRUE)>>
    /\ outbox = [u \in Uris |-> None]
    /\ server = "running"
    /\ inner = <<>>
    /\ errors = <<>>
    /\ calls = <<>>
    /\ last_failure = <<>>
    /\ now = 0
    /\ config = BackendNew
    /\ scanner = <<>>
    /\ nav = <<>>
    /\ completion = <<>>
    /\ listing = <<>>

ValidateNext ==
    \/ \E u \in Uris, v \in Versions, t \in ValidateTexts : did_open(u, v, t)
    \/ \E u \in Uris, v \in Versions, cs \in ValidateChanges : did_change(u, v, cs)
    \/ \E u \in Uris : did_close(u)
    \/ shutdown
    \/ \E t \in TaskIds : TaskGetText(t)
    \/ \E t \in TaskIds : TaskGetSchemaUrl(t)
    \/ \E t \in TaskIds, r \in {"ok", "err"} : TaskFetch(t, r)
    \/ \E t \in TaskIds : TaskPublish(t)
    \/ \E t \in TaskIds : TaskUnregister(t)
    \/ \E t \in TaskIds : TaskDrop(t)

SpecValidate == ValidateInit /\ [][ValidateNext]_vars

C31_OnePublishEmptyWithoutSchema ==
    [][\A t \in TaskIds :
          /\ tasks'[t].published # tasks[t].published
                => /\ ~tasks[t].published
                   /\ tasks[t].pc = "publish"
                   /\ outbox'[tasks[t].uri] # None
                   /\ outbox'[tasks[t].uri][1].method = "textDocument/publishDiagnostics"
                   /\ (tasks[t].text = None \/ tasks[t].schema_url = None
                          \/ tasks[t].fetched # "ok")
                         => outbox'[tasks[t].uri][1].diagnostics = <<>>
          /\ tasks[t].published => (tasks'[t].published /\ tasks'[t].pc # "publish")
          /\ tasks'[t].pc = "done" => tasks'[t].published]_vars

\* a task has published the empty list for a document that has a "$schema" and
\* whose text is not valid JSON: the schema could not be fetched
C31_Witness ==
    \E t \in TaskIds :
        LET uri == tasks[t].uri
        IN  /\ tasks[t].pc = "unregister"
            /\ outbox[uri] = Some(PublishDiagnostics(uri, <<>>))
            /\ Len(tasks) = 1
            /\ documents[uri] # None
            /\ documents[uri][1].text = TextTruncated

\* whether a list of changes has a ranged change that is out of the bounds of
\* the text that the changes before it leave
RECURSIVE SomeOutOfBounds(_, _)
SomeOutOfBounds(text, changes) ==
    /\ changes # <<>>
    /\ IF Head(changes).range = None THEN SomeOutOfBounds(Head(changes).text, Tail(changes))
       ELSE \/ ~InBounds(text, Head(changes))
            \/ SomeOutOfBounds(SpliceEdit(text, Head(changes)), Tail(changes))

\* C35: a did_change whose update fails (the uri is not open, or a range is out
\* of bounds) sends a window/logMessage of type Error and does not call
\* schedule_diagnostics: the tasks and the handle registered for the uri are
\* left as they are.
C35_FailedChangeOnlyLogs ==
    [][\A u \in Uris, v \in Versions, cs \in ValidateChanges \cup ChangeEvents :
          (/\ did_change(u, v, cs)
           /\ \/ documents[u] = None
              \/ SomeOutOfBounds(documents[u][1].text, cs))
             => /\ outbox'[u] = Some(LogMessage(u))
                /\ outbox'[u][1].type = "Error"
                /\ tasks' = tasks
                /\ pending_diagnostics' = pending_diagnostics]_vars

\* a did_change of an open document has failed while a task that is not
\* cancelled is registered for it
C35_Witness ==
    \E u \in Uris :
        /\ outbox[u] # None /\ outbox[u][1].method = "window/logMessage"
        /\ documents[u] # None
        /\ pending_diagnostics[u] # None
        /\ ~tasks[pending_diagnostics[u][1]].cancelled
        /\ ~Finished(tasks[pending_diagnostics[u][1]])

\* C36: a task that runs to completion removes only its own registration: when
\* the handle registered for its uri is that of another task, the task's last
\* step leaves it registered.
C36_RemovesOnlyOwnHandle ==
    [][\A t \in TaskIds :
          (/\ tasks[t].pc = "unregister"
           /\ tasks'[t].pc = "done"
           /\ pending_diagnostics[tasks[t].uri] # None
           /\ pending_diagnostics[tasks[t].uri] # Some(t))
             => pending_diagnostics'[tasks[t].uri] = pending_diagnostics[tasks[t].uri]]_vars

\* C37: a get_or_fetch call that reaches the cooldown check or the lookup of
\* try_get_with while the positive cache holds an unexpired schema for its url
\* is not refused by the cooldown check, and returns that schema from the
\* lookup without running the loader.
C37_CachedSchemaIsReturned ==
    [][\A c \in CallIds :
          Cached(calls[c].url) # None
             => /\ calls[c].pc = "check" => calls'[c].pc \in {"check", "enter"}
                /\ (calls[c].pc = "enter" /\ calls'[c].pc # "enter")
                      => /\ calls'[c].pc = "done"
                         /\ calls'[c].result = Cached(calls[c].url)[1]
                         /\ ~calls'[c].loaded]_vars

\* a call that began less than ERROR_RETRY_SECS after the loader had failed
\* for its url has returned the schema that a later load had stored
C37_Witness ==
    \E c \in CallIds :
        /\ calls[c].pc = "done"
        /\ calls[c].after_failure
        /\ ~calls[c].fresh
        /\ ~calls[c].loaded
        /\ calls[c].result \in SchemaValues

\* C38: property_names terminates. A call of property_names is a function of
\* the root and of the schema it resolved, so it does not end once it is made
\* for a schema for which a call is already in progress: no two of the calls
\* in progress are for the same schema.
C38_NoCallWithinItself ==
    \A i, j \in 1..Len(listing.stack) :
        i < j => listing.stack[i].schema # listing.stack[j].schema

\* C39: every name that property_names returned for a node is navigable from
\* that node: navigate([Key(name)]) on the node gives a node.
C39_ListedNamesAreNavigable ==
    listing.status = "returned"
        => \A i \in 1..Len(listing.result) :
              navigate_from(listing.root, listing.node, <<Key(listing.result[i])>>) # None

\* the indices of the line breaks of a text
LineBreaks(text) == {i \in 1..Len(text) : text[i] = LF}

\* the index of the line break that ends line n of a text (n from 0), or the
\* length of the text plus one for its last line; 0 for n = -1
LineBreakAfter(text, n) ==
    IF n < 0 THEN 0
    ELSE IF n >= Cardinality(LineBreaks(text)) THEN Len(text) + 1
    ELSE CHOOSE i \in LineBreaks(text) : Cardinality({j \in LineBreaks(text) : j < i}) = n

\* C40: for a line that the text has (a line index that is at most the number
\* of its line breaks), the offset that position_to_context has from
\* lsp_position_to_byte_offset lies between the first byte of the line and its
\* line break, or the end of the text for the last line.
C40_OffsetStaysOnLine ==
    (/\ scanner.status # "input"
     /\ scanner.line <= Cardinality(LineBreaks(scanner.text)))
        => /\ Target # None
           /\ scanner.target >= ByteLen(scanner.text, LineBreakAfter(scanner.text, scanner.line - 1))
           /\ scanner.target <= ByteLen(scanner.text, LineBreakAfter(scanner.text, scanner.line) - 1)

====
